---------------------------- MODULE Spec2Model ----------------------------
(***************************************************************************)
(* A model of the C-slop frontend: the reactive runtime (signals.js), the  *)
(* DOM helpers that sit on it, the indentation-driven parser and the class *)
(* scoping of the code generator.                                          *)
(***************************************************************************)
EXTENDS Integers, Sequences, FiniteSets, TLC

(***************************************************************************)
(* Bounds of the model.                                                    *)
(***************************************************************************)
MaxVal == 1
MaxFns == 3
MaxDepth == 5

(***************************************************************************)
(* Encodings of JavaScript values.                                         *)
(***************************************************************************)
Null == 0
NaN == -1

Sigs == {"s1", "s2"}
Vals == {NaN} \cup (0..MaxVal)

Range(q) == {q[i] : i \in 1..Len(q)}
NoDup(q) == \A i, j \in 1..Len(q) : q[i] = q[j] => i = j
Front(q) == SubSeq(q, 1, Len(q) - 1)
Last(q) == q[Len(q)]

(***************************************************************************)
(* The reactive runtime.                                                   *)
(*   value, subscribers : the closure state of every signal                *)
(*   currentEffect, effectStack : the module-level observer state          *)
(*   fns   : the functions created so far (effect executes and callbacks   *)
(*           handed to subscribe), by creation order                       *)
(*   stack : the JavaScript call stack, innermost frame last               *)
(*   thrown: an exception is propagating                                   *)
(*   everRead  : history, the signals each function's own body has read    *)
(*   attributed: history, the signals read while the function was the      *)
(*               innermost effect execution on the call stack              *)
(*   started   : history, the functions that have been run at least once   *)
(***************************************************************************)
VARIABLES value, subscribers, currentEffect, effectStack, fns, stack, thrown,
          everRead, attributed, started

sigVars == <<value, subscribers, currentEffect, effectStack, fns, stack,
             thrown, everRead, attributed, started>>

(***************************************************************************)
(* Function bodies are straight-line programs over the runtime's API.      *)
(***************************************************************************)
Rd(s) == [op |-> "rd", sig |-> s, val |-> 0, body |-> 0]
Wr(s, v) == [op |-> "wr", sig |-> s, val |-> v, body |-> 0]
Nest(b) == [op |-> "effect", sig |-> "s1", val |-> 0, body |-> b]
Throw == [op |-> "throw", sig |-> "s1", val |-> 0, body |-> 0]
Sub(s, b) == [op |-> "subscribe", sig |-> s, val |-> 0, body |-> b]
Unsub(s, f) == [op |-> "unsubscribe", sig |-> s, val |-> f, body |-> 0]
Derived == "c"
Compute == [op |-> "compute", sig |-> Derived, val |-> 0, body |-> 0]
Fetch == [op |-> "fetch", sig |-> "s1", val |-> 0, body |-> 0]
Guard(n) == [op |-> "if", sig |-> "s1", val |-> n, body |-> 0]
Batch(b) == [op |-> "batch", sig |-> "s1", val |-> 0, body |-> b]

Bodies ==
  << <<Rd("s1")>>,
     <<Rd("s1"), Wr("s2", 1)>>,
     <<Rd("s1"), Nest(1), Rd("s2")>>,
     <<Rd("s2"), Throw>>,
     <<Nest(4), Rd("s1")>>,
     <<[op |-> "listRender", sig |-> "s2", val |-> 0, body |-> 0]>>,
     <<Compute>>,
     <<Rd(Derived)>>,
     <<Fetch>>,
     <<Rd("s1"), Fetch>>,
     <<Guard(2), Wr(Derived, 1)>>,
     <<Guard(1), [op |-> "inc", sig |-> "s2", val |-> 0, body |-> 0]>>,
     <<Batch(14), Rd(Derived)>>,
     <<Rd("s1"), Wr("s2", 1), Wr("s2", 0)>>,
     <<Rd("s2"), Rd(Derived)>> >>

BodyIds == 1..5

(***************************************************************************)
(* signal.value getter/setter helpers.                                     *)
(***************************************************************************)

SetAdd(q, x) == IF x \in Range(q) THEN q ELSE Append(q, x)

SetDelete(q, x) == SelectSeq(q, LAMBDA y : y # x)

StrictEqNever(a, b) == FALSE

StrictEq(a, b) == a = b /\ a # NaN

GetterNoTrack(s) == subscribers

\* a getter that keeps only the dependencies of the current run
GetterRetrack(s) ==
  IF currentEffect # Null
    THEN [t \in DOMAIN subscribers |->
            IF t = s THEN SetAdd(subscribers[t], currentEffect)
                     ELSE SetDelete(subscribers[t], currentEffect)]
    ELSE subscribers

Getter(s) == IF currentEffect # Null
               THEN [subscribers EXCEPT ![s] = SetAdd(@, currentEffect)]
               ELSE subscribers


(***************************************************************************)
(* Call-stack frames.  A code frame runs a body (the host's call, an       *)
(* effect's execute wrapper, or a plain callback); a notify frame is one   *)
(* subscribers.forEach pass of the setter.  prev is execute's local; the   *)
(* fields entryCur, entryStack, initial, readers, invoked and skipped are   *)
(* history: the observer state on entry, the subscribers and the effects   *)
(* that had read the signal when a pass began, the functions the pass has  *)
(* called, and the number of writes the frame made that changed nothing.   *)
(***************************************************************************)
Frame(k, f, c, s) ==
  [kind |-> k, fn |-> f, code |-> c, pc |-> 1, sig |-> s,
   prev |-> currentEffect,
   entryCur |-> currentEffect, entryStack |-> effectStack,
   initial |-> IF k = "notify" THEN subscribers[s] ELSE <<>>,
   readers |-> IF k = "notify"
                 THEN {g \in 1..Len(fns) :
                         fns[g].kind = "effect" /\ s \in everRead[g]}
                 ELSE {},
   invoked |-> <<>>, skipped |-> 0]

Top == stack[Len(stack)]
IsCode(f) == f.kind \in {"script", "effect", "plain", "batch"}
Running == stack # <<>> /\ ~thrown
AtOp(name) == /\ Running
              /\ IsCode(Top)
              /\ Top.pc <= Len(Top.code)
              /\ Top.code[Top.pc].op = name
CurOp == Top.code[Top.pc]
Advance(st) == [st EXCEPT ![Len(st)].pc = @ + 1]
Push(fr) == Append(Advance(stack), fr)

InnermostFrom(st, i) ==
  LET idx == {j \in 1..i : st[j].kind = "effect"}
  IN IF idx = {} THEN Null
     ELSE st[CHOOSE j \in idx : \A k \in idx : k <= j].fn
InnermostEffect(st) == InnermostFrom(st, Len(st))

EffectFrames(st) ==
  LET sel == SelectSeq(st, LAMBDA f : f.kind = "effect")
  IN [i \in 1..Len(sel) |-> sel[i].fn]

(***************************************************************************)
(* effect(): the execute wrapper.                                          *)
(***************************************************************************)
ExecuteEnter(f) == <<f, Append(effectStack, f)>>

ExecuteFinallyNull(fr) == <<Null, Front(effectStack)>>

ExecuteFinally(fr) == <<fr.prev, Front(effectStack)>>

NoFinallyOnThrow(fr) == <<currentEffect, effectStack>>

ExecuteFinallyOnThrow(fr) == ExecuteFinally(fr)

\* batch(): the finally block
BatchFinallyKeep(fr) == currentEffect

BatchFinally(fr) == fr.prev

Invoke(f, st, tbl) ==
  /\ Len(st) < MaxDepth
  /\ started' = started \cup {f}
  /\ IF tbl[f].kind = "effect"
       THEN /\ stack' = Append(st, Frame("effect", f, Bodies[tbl[f].body], "s1"))
            /\ currentEffect' = ExecuteEnter(f)[1]
            /\ effectStack' = ExecuteEnter(f)[2]
       ELSE /\ stack' = Append(st, Frame("plain", f, Bodies[tbl[f].body], "s1"))
            /\ UNCHANGED <<currentEffect, effectStack>>

(***************************************************************************)
(* batch(fn): the observer is cleared while fn runs and restored in the    *)
(* finally block; the updates array is never filled, so the forEach over   *)
(* it does nothing.  BatchingEffect is an effect whose body calls          *)
(* batch(() => { s1.value; s2.value = 1; s2.value = 0; }) and then reads   *)
(* the derived cell.                                                       *)
(***************************************************************************)
BatchingEffect == 13
BatchedBody == 14
ThrowingReader == 4

ExecBatch ==
  /\ AtOp("batch")
  /\ Len(stack) < MaxDepth
  /\ stack' = Push(Frame("batch", Null, Bodies[CurOp.body], "s1"))
  /\ currentEffect' = Null
  /\ UNCHANGED <<value, subscribers, effectStack, fns, thrown, everRead,
                 attributed, started>>

BatchHostOps ==
  {Wr(s, v) : s \in Sigs \cup {Derived}, v \in 0..MaxVal}
    \cup {Nest(BatchingEffect), Nest(ThrowingReader), Batch(BatchedBody)}
    \cup {Sub(s, 1) : s \in Sigs}

\* the host creates the effects, subscribes callbacks, writes the cells or
\* calls batch outside any effect
BatchHostCall ==
  /\ stack = <<>>
  /\ ~thrown
  /\ \E o \in BatchHostOps :
       /\ o.op = "effect" =>
            ~\E f \in 1..Len(fns) : fns[f].body = o.body
       /\ stack' = <<Frame("script", Null, <<o>>, "s1")>>
  /\ UNCHANGED <<value, subscribers, currentEffect, effectStack, fns, thrown,
                 everRead, attributed, started>>

(***************************************************************************)
(* The host (an event handler, a module's top level) calls the runtime.    *)
(***************************************************************************)
HostOps ==
  {Rd(s) : s \in Sigs}
    \cup {Wr(s, v) : s \in Sigs, v \in Vals}
    \cup {Nest(b) : b \in BodyIds}
    \cup {Sub(s, 1) : s \in Sigs}
    \cup {Unsub(s, f) : s \in Sigs, f \in 1..MaxFns}

HostCall ==
  /\ stack = <<>>
  /\ ~thrown
  /\ \E o \in HostOps :
       /\ o.op = "unsubscribe" =>
            o.val \in Range(subscribers[o.sig]) /\ fns[o.val].kind = "plain"
       /\ stack' = <<Frame("script", Null, <<o>>, "s1")>>
  /\ UNCHANGED <<value, subscribers, currentEffect, effectStack, fns, thrown,
                 everRead, attributed, started>>

HostCatch ==
  /\ stack = <<>>
  /\ thrown
  /\ thrown' = FALSE
  /\ UNCHANGED <<value, subscribers, currentEffect, effectStack, fns, stack,
                 everRead, attributed, started>>

(***************************************************************************)
(* One step of the code on top of the call stack.                          *)
(***************************************************************************)
ExecRd ==
  /\ AtOp("rd")
  /\ subscribers' = Getter(CurOp.sig)
  /\ stack' = Advance(stack)
  /\ everRead' = IF Top.fn # Null
                   THEN [everRead EXCEPT ![Top.fn] = @ \cup {CurOp.sig}]
                   ELSE everRead
  /\ attributed' = IF InnermostEffect(stack) # Null
                     THEN [attributed EXCEPT ![InnermostEffect(stack)] = @ \cup {CurOp.sig}]
                     ELSE attributed
  /\ UNCHANGED <<value, currentEffect, effectStack, fns, thrown, started>>

ExecWr ==
  /\ AtOp("wr")
  /\ IF StrictEq(value[CurOp.sig], CurOp.val)
       THEN /\ stack' = [stack EXCEPT ![Len(stack)].pc = @ + 1,
                                      ![Len(stack)].skipped = @ + 1]
            /\ UNCHANGED value
       ELSE /\ Len(stack) < MaxDepth
            /\ value' = [value EXCEPT ![CurOp.sig] = CurOp.val]
            /\ stack' = Push(Frame("notify", Null, <<>>, CurOp.sig))
  /\ UNCHANGED <<subscribers, currentEffect, effectStack, fns, thrown,
                 everRead, attributed, started>>

ExecEffect ==
  /\ AtOp("effect")
  /\ Len(fns) < MaxFns
  /\ fns' = Append(fns, [kind |-> "effect", body |-> CurOp.body])
  /\ Invoke(Len(fns) + 1, Advance(stack), fns')
  /\ UNCHANGED <<value, subscribers, thrown, everRead, attributed>>

ExecSubscribe ==
  /\ AtOp("subscribe")
  /\ Len(fns) < MaxFns
  /\ fns' = Append(fns, [kind |-> "plain", body |-> CurOp.body])
  /\ subscribers' = [subscribers EXCEPT ![CurOp.sig] = SetAdd(@, Len(fns) + 1)]
  /\ stack' = Advance(stack)
  /\ UNCHANGED <<value, currentEffect, effectStack, thrown, everRead,
                 attributed, started>>

ExecUnsubscribe ==
  /\ AtOp("unsubscribe")
  /\ subscribers' = [subscribers EXCEPT ![CurOp.sig] = SetDelete(@, CurOp.val)]
  /\ stack' = Advance(stack)
  /\ UNCHANGED <<value, currentEffect, effectStack, fns, thrown, everRead,
                 attributed, started>>

ExecThrow ==
  /\ AtOp("throw")
  /\ thrown' = TRUE
  /\ UNCHANGED <<value, subscribers, currentEffect, effectStack, fns, stack,
                 everRead, attributed, started>>

Return ==
  /\ Running
  /\ IsCode(Top)
  /\ Top.pc > Len(Top.code)
  /\ stack' = Front(stack)
  /\ IF Top.kind = "effect"
       THEN /\ currentEffect' = ExecuteFinally(Top)[1]
            /\ effectStack' = ExecuteFinally(Top)[2]
       ELSE IF Top.kind = "batch"
         THEN /\ currentEffect' = BatchFinally(Top)
              /\ UNCHANGED effectStack
         ELSE UNCHANGED <<currentEffect, effectStack>>
  /\ UNCHANGED <<value, subscribers, fns, thrown, everRead, attributed, started>>

NotifyNext ==
  /\ Running
  /\ Top.kind = "notify"
  /\ Top.pc <= Len(subscribers[Top.sig])
  /\ LET f == subscribers[Top.sig][Top.pc]
     IN Invoke(f, [stack EXCEPT ![Len(stack)].pc = @ + 1,
                                ![Len(stack)].invoked = Append(@, f)],
               fns)
  /\ UNCHANGED <<value, subscribers, fns, thrown, everRead, attributed>>

NotifyDone ==
  /\ Running
  /\ Top.kind = "notify"
  /\ Top.pc > Len(subscribers[Top.sig])
  /\ stack' = Front(stack)
  /\ UNCHANGED <<value, subscribers, currentEffect, effectStack, fns, thrown,
                 everRead, attributed, started>>

Unwind ==
  /\ thrown
  /\ stack # <<>>
  /\ stack' = Front(stack)
  /\ IF Top.kind = "effect"
       THEN /\ currentEffect' = ExecuteFinallyOnThrow(Top)[1]
            /\ effectStack' = ExecuteFinallyOnThrow(Top)[2]
       ELSE IF Top.kind = "batch"
         THEN /\ currentEffect' = BatchFinally(Top)
              /\ UNCHANGED effectStack
         ELSE UNCHANGED <<currentEffect, effectStack>>
  /\ UNCHANGED <<value, subscribers, fns, thrown, everRead, attributed, started>>

SigInitWith(v) ==
  /\ value = v
  /\ subscribers = [s \in Sigs |-> <<>>]
  /\ currentEffect = Null
  /\ effectStack = <<>>
  /\ fns = <<>>
  /\ stack = <<>>
  /\ thrown = FALSE
  /\ everRead = [f \in 1..MaxFns |-> {}]
  /\ attributed = [f \in 1..MaxFns |-> {}]
  /\ started = {}

SigInit == SigInitWith([s \in Sigs |-> 0])

(***************************************************************************)
(* computed(fn): a signal constructed with undefined plus an effect whose  *)
(* body is  sig.value = fn().  The derived cell is "c"; fn is the          *)
(* expression  s1.value && s2.value , which reads s2 only on the runs      *)
(* where s1 is truthy.                                                     *)
(***************************************************************************)
UndefinedValue == -2
ComputedBody == 7
DerivedReader == 8

Truthy(v) == v # 0 /\ v # NaN /\ v # UndefinedValue

\* the value of  s1.value && s2.value
FnValue(val) == IF Truthy(val["s1"]) THEN val["s2"] ELSE val["s1"]

FnReadsFirstOnly(val) == <<"s1">>

\* the signals whose getter one run of fn calls, in order
FnReads(val) == IF Truthy(val["s1"]) THEN <<"s1", "s2">> ELSE <<"s1">>

\* the getters of one run of fn: each read signal gains the observer
TrackReads(val) ==
  [s \in DOMAIN subscribers |->
     IF s \in Range(FnReads(val)) THEN Getter(s)[s] ELSE subscribers[s]]

HasComputed == \E f \in 1..Len(fns) : fns[f].body = ComputedBody

ComputedHostOps ==
  {Wr(s, v) : s \in Sigs, v \in Vals}
    \cup {Nest(ComputedBody), Nest(DerivedReader), Nest(1)}

\* the host writes a source signal, calls computed(fn), or creates an
\* effect reading the derived cell or s1
ComputedHostCall ==
  /\ stack = <<>>
  /\ ~thrown
  /\ \E o \in ComputedHostOps :
       /\ (o.op = "effect" /\ o.body = ComputedBody) => ~HasComputed
       /\ (o.op = "effect" /\ o.body = DerivedReader) => HasComputed
       /\ stack' = <<Frame("script", Null, <<o>>, "s1")>>
  /\ UNCHANGED <<value, subscribers, currentEffect, effectStack, fns, thrown,
                 everRead, attributed, started>>

\* sig.value = fn(): the getters of fn's reads, then the setter of sig
ExecCompute ==
  /\ AtOp("compute")
  /\ subscribers' = TrackReads(value)
  /\ everRead' = [everRead EXCEPT ![Top.fn] = @ \cup Range(FnReads(value))]
  /\ attributed' = [attributed EXCEPT ![Top.fn] = @ \cup Range(FnReads(value))]
  /\ IF StrictEq(value[Derived], FnValue(value))
       THEN /\ stack' = [stack EXCEPT ![Len(stack)].pc = @ + 1,
                                      ![Len(stack)].skipped = @ + 1]
            /\ UNCHANGED value
       ELSE /\ Len(stack) < MaxDepth
            /\ value' = [value EXCEPT ![Derived] = FnValue(value)]
            /\ stack' = Push(Frame("notify", Null, <<>>, Derived))
  /\ UNCHANGED <<currentEffect, effectStack, fns, thrown, started>>

\* an effect that reads a source signal and then the derived cell
SourceAndDerivedReader == 15

GlitchHostOps == ComputedHostOps \cup {Nest(SourceAndDerivedReader)}

\* as ComputedHostCall, with the effect reading s2 and the derived cell
GlitchHostCall ==
  /\ stack = <<>>
  /\ ~thrown
  /\ \E o \in GlitchHostOps :
       /\ (o.op = "effect" /\ o.body = ComputedBody) => ~HasComputed
       /\ (o.op = "effect" /\ o.body \in {DerivedReader, SourceAndDerivedReader})
            => HasComputed
       /\ stack' = <<Frame("script", Null, <<o>>, "s1")>>
  /\ UNCHANGED <<value, subscribers, currentEffect, effectStack, fns, thrown,
                 everRead, attributed, started>>

ComputedInit ==
  /\ value = [s \in Sigs \cup {Derived} |->
                IF s = Derived THEN UndefinedValue ELSE 0]
  /\ subscribers = [s \in Sigs \cup {Derived} |-> <<>>]
  /\ currentEffect = Null
  /\ effectStack = <<>>
  /\ fns = <<>>
  /\ stack = <<>>
  /\ thrown = FALSE
  /\ everRead = [f \in 1..MaxFns |-> {}]
  /\ attributed = [f \in 1..MaxFns |-> {}]
  /\ started = {}



(***************************************************************************)
(* Generated guarded effects.  An effect line  ~ $a, $b > action  is       *)
(* lowered to  effect(() => { if ($a.value && $b.value) { action; } });    *)
(* the dependencies are "s1" and "s2".  Body 11 is  ~ $a, $b > $c:1  with  *)
(* $c the cell "c"; body 12 is  ~ $a > $b++ .                              *)
(***************************************************************************)
AssignGuarded == 11
IncrementGuarded == 12
Deps == <<"s1", "s2">>

GuardHoldsFirst(val, n) == Truthy(val[Deps[1]])

\* deps.join(' && ') evaluated on the current values
GuardHolds(val, n) == \A i \in 1..n : Truthy(val[Deps[i]])

\* the cells the && chain reads: up to the first falsy one
GuardReads(val, n) ==
  {Deps[i] : i \in {j \in 1..n : \A k \in 1..(j - 1) : Truthy(val[Deps[k]])}}

\* if (deps) { ... }: the getters of the chain, then the branch
ExecIf ==
  /\ AtOp("if")
  /\ subscribers' =
       [s \in DOMAIN subscribers |->
          IF s \in GuardReads(value, CurOp.val)
            THEN Getter(s)[s] ELSE subscribers[s]]
  /\ everRead' =
       [everRead EXCEPT ![Top.fn] = @ \cup GuardReads(value, CurOp.val)]
  /\ attributed' =
       [attributed EXCEPT ![Top.fn] = @ \cup GuardReads(value, CurOp.val)]
  /\ stack' = IF GuardHolds(value, CurOp.val)
                THEN Advance(stack)
                ELSE [stack EXCEPT ![Len(stack)].pc = Len(Top.code) + 1]
  /\ UNCHANGED <<value, currentEffect, effectStack, fns, thrown, started>>

HasGuarded ==
  \E f \in 1..Len(fns) : fns[f].body \in {AssignGuarded, IncrementGuarded}

GuardHostOps ==
  {Wr(s, v) : s \in Sigs, v \in Vals}
    \cup {Wr(Derived, 0)}
    \cup {Nest(AssignGuarded), Nest(IncrementGuarded)}
    \cup {Sub(s, 1) : s \in Sigs}
    \cup {Unsub(s, f) : s \in Sigs, f \in 1..MaxFns}

\* the component function creates its guarded effect; event handlers write
\* the cells; the host subscribes and unsubscribes callbacks
GuardHostCall ==
  /\ stack = <<>>
  /\ ~thrown
  /\ \A s \in Sigs : value[s] <= MaxVal
  /\ \E o \in GuardHostOps :
       /\ o.op = "effect" => ~HasGuarded
       /\ o.op = "unsubscribe" =>
            o.val \in Range(subscribers[o.sig]) /\ fns[o.val].kind = "plain"
       /\ stack' = <<Frame("script", Null, <<o>>, "s1")>>
  /\ UNCHANGED <<value, subscribers, currentEffect, effectStack, fns, thrown,
                 everRead, attributed, started>>

GuardInit ==
  /\ value = [s \in Sigs \cup {Derived} |-> 0]
  /\ subscribers = [s \in Sigs \cup {Derived} |-> <<>>]
  /\ currentEffect = Null
  /\ effectStack = <<>>
  /\ fns = <<>>
  /\ stack = <<>>
  /\ thrown = FALSE
  /\ everRead = [f \in 1..MaxFns |-> {}]
  /\ attributed = [f \in 1..MaxFns |-> {}]
  /\ started = {}

\* a call that would exceed the engine's call stack raises RangeError
StackOverflow ==
  /\ Running
  /\ Len(stack) >= MaxDepth
  /\ \/ Top.kind = "notify" /\ Top.pc <= Len(subscribers[Top.sig])
     \/ AtOp("inc")
     \/ AtOp("effect")
     \/ IF AtOp("wr") THEN ~StrictEq(value[CurOp.sig], CurOp.val) ELSE FALSE
  /\ thrown' = TRUE
  /\ UNCHANGED <<value, subscribers, currentEffect, effectStack, fns, stack,
                 everRead, attributed, started>>

(***************************************************************************)
(* Generated fetch effects.  An effect line  ~ fetch(url) > $items  is     *)
(* lowered to                                                              *)
(*   effect(() => { fetch(url).then(r => r.json())                         *)
(*                            .then(data => { $items.value = data; }); }); *)
(* "s1" is a cell the url expression may read ($page), "s2" is $items.     *)
(*   pending : the requests in flight, [id, stage]; the server answers     *)
(*             request id with the data id                                 *)
(*   issued  : the number of fetch() calls made so far                     *)
(*   resolved: history, the ids whose data continuation has run, in order  *)
(***************************************************************************)
VARIABLES pending, issued, resolved

fetchVars == <<pending, issued, resolved>>

MaxRequests == 2

Page == "s1"
Data == "s2"
ConstantUrlBody == 9
CellUrlBody == 10

\* data => { $items.value = data; } guarded by a generation check
ContinuationIfLatest(id) ==
  IF id = issued THEN <<Wr(Data, id)>> ELSE <<>>

\* data => { $items.value = data; }
Continuation(id) == <<Wr(Data, id)>>

\* the component function runs: its fetch effect is created
FetchMount ==
  /\ stack = <<>>
  /\ fns = <<>>
  /\ \E b \in {ConstantUrlBody, CellUrlBody} :
       stack' = <<Frame("script", Null, <<Nest(b)>>, "s1")>>
  /\ UNCHANGED <<value, subscribers, currentEffect, effectStack, fns, thrown,
                 everRead, attributed, started, fetchVars>>

\* an event handler writes the cell the url may read
FetchHostWrite ==
  /\ stack = <<>>
  /\ fns # <<>>
  /\ \E v \in Vals :
       stack' = <<Frame("script", Null, <<Wr(Page, v)>>, "s1")>>
  /\ UNCHANGED <<value, subscribers, currentEffect, effectStack, fns, thrown,
                 everRead, attributed, started, fetchVars>>

\* fetch(url) is called: a request leaves, the promise chain is built
ExecFetch ==
  /\ AtOp("fetch")
  /\ issued < MaxRequests
  /\ issued' = issued + 1
  /\ pending' = pending \cup {[id |-> issued + 1, stage |-> "response"]}
  /\ stack' = Advance(stack)
  /\ UNCHANGED <<value, subscribers, currentEffect, effectStack, fns, thrown,
                 everRead, attributed, started, resolved>>

\* a response arrives: r => r.json() runs
FetchResponse ==
  /\ stack = <<>>
  /\ \E r \in pending :
       /\ r.stage = "response"
       /\ pending' = (pending \ {r}) \cup {[r EXCEPT !.stage = "json"]}
  /\ UNCHANGED <<sigVars, issued, resolved>>

\* a body has been read: the data continuation runs
FetchData ==
  /\ stack = <<>>
  /\ \E r \in pending :
       /\ r.stage = "json"
       /\ pending' = pending \ {r}
       /\ resolved' = Append(resolved, r.id)
       /\ stack' = <<Frame("script", Null, Continuation(r.id), "s1")>>
  /\ UNCHANGED <<value, subscribers, currentEffect, effectStack, fns, thrown,
                 everRead, attributed, started, issued>>

FetchInit ==
  /\ pending = {}
  /\ issued = 0
  /\ resolved = <<>>

FetchIdle == FetchInit

(***************************************************************************)
(* The DOM helpers h, mount and list, driven by a compiled component with  *)
(* $count:0, $items:[], a heading holding @{$count}, a button bound to     *)
(* $count++ and a loop over $items.  Signal "s1" is $count, "s2" is $items.*)
(*   heading, button : the two elements, [id, text]                        *)
(*   container       : the element list() returns, [id, kids], each kid    *)
(*                     [id, text]                                          *)
(*   nextId          : the identity the next created node gets             *)
(*   arrayItems      : the items of the array object held in $items        *)
(*   mounted         : mount() has run                                     *)
(*   clicks, fetches : history, events dispatched so far                   *)
(*   prevKids, made  : history, the ids of the container's children when   *)
(*                     the latest fetch wrote $items, and the ids of the   *)
(*                     nodes renderItem produced in the latest render      *)
(***************************************************************************)
VARIABLES heading, button, container, nextId, arrayItems, mounted, clicks,
          fetches, prevKids, made

domVars == <<heading, button, container, nextId, arrayItems, mounted, clicks,
             fetches, prevKids, made>>

MaxClicks == 2
MaxFetches == 2
MaxLen == 3
MaxItem == 2

Count == "s1"
Items == "s2"
Undefined == 0
RenderBody == 6
Inc(s) == [op |-> "inc", sig |-> s, val |-> 0, body |-> 0]

Digits == <<"0", "1", "2", "3", "4", "5", "6", "7", "8", "9">>

RECURSIVE String(_)
String(n) == IF n = NaN THEN "NaN"
             ELSE IF n < 10 THEN Digits[n + 1]
             ELSE String(n \div 10) \o Digits[(n % 10) + 1]

ItemSeqs == UNION {[1..n -> 1..MaxItem] : n \in 0..MaxLen}

\* h(tag, props, child): a child that is a string, a number or a signal
\* becomes a text node holding String of it, read once.
HText(tag, id, child) == [id |-> id, tag |-> tag, text |-> String(child)]

\* list(): render() empties the container and appends what renderItem makes.
KeepContainer(kids) == kids

ClearContainer(kids) == <<>>

AppendItems(kids, items, firstId) ==
  kids \o [i \in 1..Len(items) |-> HText("div", firstId + i - 1, items[i])]

ListRender(kids, arrayValue, firstId) ==
  AppendItems(ClearContainer(kids),
              IF arrayValue # Undefined THEN arrayItems ELSE <<>>,
              firstId)

RenderedCount(arrayValue) ==
  IF arrayValue # Undefined THEN Len(arrayItems) ELSE 0

KidIds(kids) == [i \in 1..Len(kids) |-> kids[i].id]

DomMount ==
  /\ ~mounted
  /\ stack = <<>>
  /\ ~thrown
  /\ heading' = HText("h1", nextId, value[Count])
  /\ button' = [id |-> nextId + 1, tag |-> "button", text |-> "+"]
  /\ container' = [id |-> nextId + 2,
                   kids |-> ListRender(<<>>, value[Items], nextId + 3)]
  /\ made' = KidIds(container'.kids)
  /\ nextId' = nextId + 3 + RenderedCount(value[Items])
  /\ fns' = Append(fns, [kind |-> "plain", body |-> RenderBody])
  /\ subscribers' =
       [Getter(Items) EXCEPT ![Items] = SetAdd(@, Len(fns) + 1)]
  /\ mounted' = TRUE
  /\ UNCHANGED <<value, currentEffect, effectStack, stack, thrown, everRead,
                 attributed, started, arrayItems, clicks, fetches, prevKids>>

DomClick ==
  /\ mounted
  /\ stack = <<>>
  /\ ~thrown
  /\ clicks < MaxClicks
  /\ clicks' = clicks + 1
  /\ stack' = <<Frame("script", Null, <<Inc(Count)>>, Count)>>
  /\ UNCHANGED <<value, subscribers, currentEffect, effectStack, fns, thrown,
                 everRead, attributed, started, heading, button, container,
                 nextId, arrayItems, mounted, fetches, prevKids, made>>

\* A fetch continuation writes a new array into $items.
DomFetched ==
  /\ mounted
  /\ stack = <<>>
  /\ ~thrown
  /\ fetches < MaxFetches
  /\ fetches' = fetches + 1
  /\ \E data \in ItemSeqs : arrayItems' = data
  /\ prevKids' = Range(KidIds(container.kids))
  /\ stack' = <<Frame("script", Null, <<Wr(Items, value[Items] + 1)>>, Items)>>
  /\ UNCHANGED <<value, subscribers, currentEffect, effectStack, fns, thrown,
                 everRead, attributed, started, heading, button, container,
                 nextId, mounted, clicks, made>>

\* A fetch continuation writes a response that holds no data.
DomFetchedNothing ==
  /\ mounted
  /\ stack = <<>>
  /\ ~thrown
  /\ fetches < MaxFetches
  /\ fetches' = fetches + 1
  /\ arrayItems' = <<>>
  /\ prevKids' = IF value[Items] = Undefined
                   THEN prevKids
                   ELSE Range(KidIds(container.kids))
  /\ stack' = <<Frame("script", Null, <<Wr(Items, Undefined)>>, Items)>>
  /\ UNCHANGED <<value, subscribers, currentEffect, effectStack, fns, thrown,
                 everRead, attributed, started, heading, button, container,
                 nextId, mounted, clicks, made>>

\* The handler writes back the array object $items already holds.
DomRewrite ==
  /\ mounted
  /\ stack = <<>>
  /\ ~thrown
  /\ stack' = <<Frame("script", Null, <<Wr(Items, value[Items])>>, Items)>>
  /\ UNCHANGED <<value, subscribers, currentEffect, effectStack, fns, thrown,
                 everRead, attributed, started, domVars>>

ExecInc ==
  /\ AtOp("inc")
  /\ Len(stack) < MaxDepth
  /\ subscribers' = Getter(CurOp.sig)
  /\ value' = [value EXCEPT ![CurOp.sig] = IF @ = NaN THEN NaN ELSE @ + 1]
  /\ stack' = Push(Frame("notify", Null, <<>>, CurOp.sig))
  /\ UNCHANGED <<currentEffect, effectStack, fns, thrown, everRead,
                 attributed, started>>

ExecListRender ==
  /\ AtOp("listRender")
  /\ subscribers' = Getter(Items)
  /\ container' =
       [container EXCEPT !.kids = ListRender(@, value[Items], nextId)]
  /\ made' = [i \in 1..RenderedCount(value[Items]) |-> nextId + i - 1]
  /\ nextId' = nextId + RenderedCount(value[Items])
  /\ stack' = Advance(stack)
  /\ UNCHANGED <<value, currentEffect, effectStack, fns, thrown, everRead,
                 attributed, started, heading, button, arrayItems, mounted,
                 clicks, fetches, prevKids>>

DomIdle ==
  /\ heading = [id |-> 0, tag |-> "", text |-> ""]
  /\ button = [id |-> 0, tag |-> "", text |-> ""]
  /\ container = [id |-> 0, kids |-> <<>>]
  /\ nextId = 1
  /\ arrayItems = <<>>
  /\ mounted = FALSE
  /\ clicks = 0
  /\ fetches = 0
  /\ prevKids = {}
  /\ made = <<>>

\* Component(): $count = signal(0), $items = signal([]).
DomInit ==
  /\ SigInitWith([s \in Sigs |-> IF s = Items THEN 1 ELSE 0])
  /\ DomIdle



(***************************************************************************)
(* Parser.findContentBracket: the scan of one trimmed markup line for the  *)
(* bracket that opens the inline content.  Characters matter only as '-',  *)
(* '[', ']' or anything else ("a").  Indices are JavaScript's, from 0.     *)
(*   bline  : the line            bi     : the loop index i                *)
(*   bdepth : depth               bpc    : "scan" until the function       *)
(*   bret   : the value returned           returns, then "done"            *)
(***************************************************************************)
VARIABLES bline, bi, bdepth, bpc, bret

bracketVars == <<bline, bi, bdepth, bpc, bret>>

MaxLine == 5

LineChars == {"-", "[", "]", "a"}
Lines == UNION {[1..n -> LineChars] : n \in 0..MaxLine}

CharAt(line, i) == line[i + 1]

AnyBracket(line, i) == FALSE

IsArbitraryBracket(line, i) == i > 0 /\ CharAt(line, i - 1) = "-"

BracketInit ==
  /\ bline \in Lines
  /\ bi = 0
  /\ bdepth = 0
  /\ bpc = "scan"
  /\ bret = -1

BracketIdle ==
  /\ bline = <<>>
  /\ bi = 0
  /\ bdepth = 0
  /\ bpc = "done"
  /\ bret = -1

\* One iteration of the for loop.
ScanStep ==
  /\ bpc = "scan"
  /\ bi < Len(bline)
  /\ IF CharAt(bline, bi) = "["
       THEN IF IsArbitraryBracket(bline, bi)
              THEN /\ bdepth' = bdepth + 1
                   /\ bi' = bi + 1
                   /\ UNCHANGED <<bpc, bret>>
              ELSE IF bdepth = 0
                     THEN /\ bret' = bi
                          /\ bpc' = "done"
                          /\ UNCHANGED <<bi, bdepth>>
                     ELSE /\ bi' = bi + 1
                          /\ UNCHANGED <<bdepth, bpc, bret>>
       ELSE /\ bdepth' = IF CharAt(bline, bi) = "]" /\ bdepth > 0
                           THEN bdepth - 1
                           ELSE bdepth
            /\ bi' = bi + 1
            /\ UNCHANGED <<bpc, bret>>
  /\ UNCHANGED bline

\* The loop ends without a content bracket.
ScanEnd ==
  /\ bpc = "scan"
  /\ bi = Len(bline)
  /\ bret' = -1
  /\ bpc' = "done"
  /\ UNCHANGED <<bline, bi, bdepth>>

(***************************************************************************)
(* Style sheet generation: scope tags and scoped class rules.  Class names *)
(* and selectors are sequences of characters; a 32-bit integer is a pair   *)
(* <<high, low>> of 16-bit halves in two's complement.                     *)
(***************************************************************************)
VARIABLES componentName, elementClasses, scopeId, parts, arbitraryClasses,
          todo, cur, phase

scopeVars == <<componentName, elementClasses, scopeId, parts,
               arbitraryClasses, todo, cur, phase>>

MaxName == 2
MaxClasses == 1

Half == 65536
Radix == 36
SliceEnd == 4

NameChars == {"A", "B", "a"}

charCodeAt == [c \in NameChars |-> CASE c = "A" -> 65 [] c = "B" -> 66 [] c = "a" -> 97]

Names == UNION {[1..n -> NameChars] : n \in 1..MaxName}

ARBITRARY_PREFIXES ==
  { <<"p">>,
    <<"p", "x">>,
    <<"p", "y">>,
    <<"p", "t">>,
    <<"p", "b">>,
    <<"p", "l">>,
    <<"p", "r">>,
    <<"m">>,
    <<"m", "x">>,
    <<"m", "y">>,
    <<"m", "t">>,
    <<"m", "b">>,
    <<"m", "l">>,
    <<"m", "r">>,
    <<"w">>,
    <<"h">>,
    <<"m", "i", "n", "-", "w">>,
    <<"m", "a", "x", "-", "w">>,
    <<"m", "i", "n", "-", "h">>,
    <<"m", "a", "x", "-", "h">>,
    <<"g", "a", "p">>,
    <<"t", "e", "x", "t">>,
    <<"b", "g">>,
    <<"b", "o", "r", "d", "e", "r">>,
    <<"r", "o", "u", "n", "d", "e", "d">>,
    <<"t", "o", "p">>,
    <<"r", "i", "g", "h", "t">>,
    <<"b", "o", "t", "t", "o", "m">>,
    <<"l", "e", "f", "t">>,
    <<"z">>,
    <<"o", "p", "a", "c", "i", "t", "y">> }

UTILITY_CLASS_PREFIXES ==
  { <<"b", "t", "n">>,
    <<"c", "a", "r", "d">>,
    <<"i", "n", "p", "u", "t">>,
    <<"t", "e", "x", "t", "a", "r", "e", "a">>,
    <<"s", "e", "l", "e", "c", "t">>,
    <<"c", "h", "e", "c", "k", "b", "o", "x">>,
    <<"r", "a", "d", "i", "o">>,
    <<"t", "o", "g", "g", "l", "e">>,
    <<"a", "l", "e", "r", "t">>,
    <<"b", "a", "d", "g", "e">>,
    <<"c", "o", "n", "t", "a", "i", "n", "e", "r">>,
    <<"f", "l", "e", "x">>,
    <<"g", "r", "i", "d">>,
    <<"i", "t", "e", "m", "s", "-">>,
    <<"j", "u", "s", "t", "i", "f", "y", "-">>,
    <<"g", "a", "p", "-">>,
    <<"c", "o", "l", "-">>,
    <<"r", "o", "w", "-">>,
    <<"p", "-">>,
    <<"p", "x", "-">>,
    <<"p", "y", "-">>,
    <<"p", "t", "-">>,
    <<"p", "b", "-">>,
    <<"p", "l", "-">>,
    <<"p", "r", "-">>,
    <<"m", "-">>,
    <<"m", "x", "-">>,
    <<"m", "y", "-">>,
    <<"m", "t", "-">>,
    <<"m", "b", "-">>,
    <<"m", "l", "-">>,
    <<"m", "r", "-">>,
    <<"t", "e", "x", "t", "-">>,
    <<"f", "o", "n", "t", "-">>,
    <<"l", "e", "a", "d", "i", "n", "g", "-">>,
    <<"t", "r", "a", "c", "k", "i", "n", "g", "-">>,
    <<"w", "-">>,
    <<"h", "-">>,
    <<"m", "i", "n", "-">>,
    <<"m", "a", "x", "-">>,
    <<"h", "i", "d", "d", "e", "n">>,
    <<"b", "l", "o", "c", "k">>,
    <<"i", "n", "l", "i", "n", "e">>,
    <<"r", "e", "l", "a", "t", "i", "v", "e">>,
    <<"a", "b", "s", "o", "l", "u", "t", "e">>,
    <<"f", "i", "x", "e", "d">>,
    <<"s", "t", "i", "c", "k", "y">>,
    <<"t", "a", "b", "l", "e">>,
    <<"n", "a", "v", "b", "a", "r">>,
    <<"n", "a", "v", "-">>,
    <<"b", "r", "e", "a", "d", "c", "r", "u", "m", "b">>,
    <<"t", "a", "b", "s">>,
    <<"t", "a", "b", "-">>,
    <<"m", "o", "d", "a", "l">>,
    <<"p", "r", "o", "g", "r", "e", "s", "s">>,
    <<"t", "o", "o", "l", "t", "i", "p">>,
    <<"d", "r", "o", "p", "d", "o", "w", "n">>,
    <<"a", "v", "a", "t", "a", "r">>,
    <<"o", "v", "e", "r", "f", "l", "o", "w", "-">> }

ClassNames == { <<"c", "o", "n", "t", "a", "i", "n", "e", "r">>,
                <<"b", "o", "x">>,
                <<"p", "-", "[", "1", "p", "x", "]">> }

ClassLists == UNION {[1..n -> ClassNames] : n \in 1..MaxClasses}

startsWith(s, prefix) ==
  Len(prefix) <= Len(s) /\ SubSeq(s, 1, Len(prefix)) = prefix

isArbitraryClass(className) ==
  \E pre \in ARBITRARY_PREFIXES :
    /\ startsWith(className, pre \o <<"-", "[">>)
    /\ Len(className) >= Len(pre) + 4
    /\ className[Len(className)] = "]"

isUtilityClass(className) ==
  \/ isArbitraryClass(className)
  \/ \E prefix \in UTILITY_CLASS_PREFIXES : startsWith(className, prefix)

\* 32-bit arithmetic on <<high, low>> halves
Zero32 == <<0, 0>>
Shl5(h) == <<(h[1] * 32 + (h[2] \div 2048)) % Half, (h[2] * 32) % Half>>
Sub32(a, b) ==
  LET lo == a[2] - b[2]
      borrow == IF lo < 0 THEN 1 ELSE 0
  IN  <<(a[1] - b[1] - borrow) % Half, lo % Half>>
AddCode(a, c) ==
  LET lo == a[2] + c
  IN  <<(a[1] + (lo \div Half)) % Half, lo % Half>>
IsNegative(h) == h[1] >= Half \div 2
Abs32(h) == IF IsNegative(h) THEN Sub32(Zero32, h) ELSE h
DivRadix(h) ==
  LET t == (h[1] % Radix) * Half + h[2]
  IN  <<h[1] \div Radix, t \div Radix>>
ModRadix(h) == ((h[1] % Radix) * Half + h[2]) % Radix

Digit36 == <<"0", "1", "2", "3", "4", "5", "6", "7", "8", "9", "a", "b",
             "c", "d", "e", "f", "g", "h", "i", "j", "k", "l", "m", "n",
             "o", "p", "q", "r", "s", "t", "u", "v", "w", "x", "y", "z">>

RECURSIVE toString36(_)
toString36(h) ==
  IF DivRadix(h) = Zero32 THEN <<Digit36[ModRadix(h) + 1]>>
  ELSE toString36(DivRadix(h)) \o <<Digit36[ModRadix(h) + 1]>>

\* String.prototype.slice(begin, end) for begin >= 0
slice(s, begin, end) ==
  LET stop == IF end < 0 THEN (IF Len(s) + end < 0 THEN 0 ELSE Len(s) + end)
              ELSE IF end > Len(s) THEN Len(s) ELSE end
  IN  IF begin >= stop THEN <<>> ELSE SubSeq(s, begin + 1, stop)

RECURSIVE hashLoop(_, _, _)
hashLoop(name, i, hash) ==
  IF i >= Len(name) THEN hash
  ELSE hashLoop(name, i + 1,
                AddCode(Sub32(Shl5(hash), hash), charCodeAt[name[i + 1]]))

generateScopeId(name) ==
  slice(toString36(Abs32(hashLoop(name, 0, Zero32))), 0, SliceEnd)

scopedClass(className, id) == className \o <<"-">> \o id

RECURSIVE escapeForCSS(_)
escapeForCSS(className) ==
  IF className = <<>> THEN <<>>
  ELSE (IF Head(className) \in {"[", "]", "#"}
        THEN <<"\\", Head(className)>> ELSE <<Head(className)>>)
       \o escapeForCSS(Tail(className))

RECURSIVE collectArbitraryClasses(_, _)
collectArbitraryClasses(classes, acc) ==
  IF classes = <<>> THEN acc
  ELSE collectArbitraryClasses(Tail(classes),
         IF isArbitraryClass(Head(classes)) /\ Head(classes) \notin Range(acc)
         THEN Append(acc, Head(classes)) ELSE acc)

\* new CodeGenerator(ast, componentName), then generateCSS up to the walk
NewCodeGenerator ==
  /\ phase = "new"
  /\ scopeId' = [scopeId EXCEPT ![cur] = generateScopeId(componentName[cur])]
  /\ arbitraryClasses' = collectArbitraryClasses(elementClasses[cur], <<>>)
  /\ todo' = elementClasses[cur]
  /\ phase' = "collect"
  /\ UNCHANGED <<componentName, elementClasses, parts, cur>>

\* collectStyles: a utility class gets no rule
CollectSkip ==
  /\ phase = "collect"
  /\ todo # <<>>
  /\ isUtilityClass(Head(todo))
  /\ todo' = Tail(todo)
  /\ UNCHANGED <<componentName, elementClasses, scopeId, parts,
                 arbitraryClasses, cur, phase>>

\* collectStyles: any other class gets a rule under its scoped name
CollectRule ==
  /\ phase = "collect"
  /\ todo # <<>>
  /\ ~isUtilityClass(Head(todo))
  /\ parts' = [parts EXCEPT
                 ![cur] = Append(@, scopedClass(Head(todo), scopeId[cur]))]
  /\ todo' = Tail(todo)
  /\ UNCHANGED <<componentName, elementClasses, scopeId, arbitraryClasses,
                 cur, phase>>

CollectEnd ==
  /\ phase = "collect"
  /\ todo = <<>>
  /\ phase' = "arbitrary"
  /\ UNCHANGED <<componentName, elementClasses, scopeId, parts,
                 arbitraryClasses, todo, cur>>

\* generateCSS: one unscoped rule per distinct arbitrary-value class
ArbitraryRule ==
  /\ phase = "arbitrary"
  /\ arbitraryClasses # <<>>
  /\ parts' = [parts EXCEPT
                 ![cur] = Append(@, escapeForCSS(Head(arbitraryClasses)))]
  /\ arbitraryClasses' = Tail(arbitraryClasses)
  /\ UNCHANGED <<componentName, elementClasses, scopeId, todo, cur, phase>>

\* generateCSS returns; the build goes on with the next component
GenerateDone ==
  /\ phase = "arbitrary"
  /\ arbitraryClasses = <<>>
  /\ IF cur < 2
       THEN cur' = cur + 1 /\ phase' = "new"
       ELSE cur' = cur /\ phase' = "done"
  /\ UNCHANGED <<componentName, elementClasses, scopeId, parts,
                 arbitraryClasses, todo>>

ScopeStart(names, classes) ==
  /\ componentName = names
  /\ elementClasses = classes
  /\ scopeId = <<<<>>, <<>>>>
  /\ parts = <<<<>>, <<>>>>
  /\ arbitraryClasses = <<>>
  /\ todo = <<>>
  /\ cur = 1

ScopeInit ==
  /\ \E n1, n2 \in Names :
       /\ n1 # n2
       /\ \E c1, c2 \in ClassLists : ScopeStart(<<n1, n2>>, <<c1, c2>>)
  /\ phase = "new"

ScopeIdle ==
  /\ ScopeStart(<<<<"A">>, <<"B">>>>, <<<<>>, <<>>>>)
  /\ phase = "done"

(***************************************************************************)
(* The parser of .ui sources.  A line is a sequence of characters; indices *)
(* into lines are JavaScript's, from 0.  An AST node is a record           *)
(* [type, value, children]: value holds the text the node is built from    *)
(* (an element's definition, a text, a name, a condition), children the    *)
(* inline children followed by the line children.  parseElementDef and     *)
(* parseInlineContent are functions of that text alone, so a node keeps    *)
(* the text in their place.  ast.effects and the alias table are left out. *)
(*   source   : the lines as [level, text], before indentation is applied  *)
(*   units    : the indentation unit of the first and of the second parse  *)
(*   run      : 1 or 2               lines  : this.lines                   *)
(*   pos      : this.pos             ast    : this.ast                     *)
(*   pframes  : the active calls of parseRootElements (bottom) and of      *)
(*              parseChildren, each with the node it collects children for *)
(*   firstAst : what the first parse returned                              *)
(*   ppc      : "new", "parsing", "done"                                   *)
(***************************************************************************)
VARIABLES source, units, run, lines, pos, ast, pframes, firstAst, ppc

parseVars == <<source, units, run, lines, pos, ast, pframes, firstAst, ppc>>

MaxLines == 3
MaxLevel == 2

Units == {1, 2, 4}

Lower == {"a", "b", "c", "d", "e", "f", "g", "h", "i", "j", "k", "l", "m",
          "n", "o", "p", "q", "r", "s", "t", "u", "v", "w", "x", "y", "z"}
Upper == {"A", "B", "C", "D", "E", "F", "G", "H", "I", "J", "K", "L", "M",
          "N", "O", "P", "Q", "R", "S", "T", "U", "V", "W", "X", "Y", "Z"}
Word == Lower \cup Upper \cup Range(Digits) \cup {"_"}

\* The fence of a code block, three backticks; a backtick is written as
\* BackTick, since a string of this module cannot hold the character.
BackTick == "'"
Fence == <<BackTick, BackTick, BackTick>>

SetMin(S) == CHOOSE x \in S : \A y \in S : x <= y
SetMax(S) == CHOOSE x \in S : \A y \in S : y <= x

Spaces(n) == [i \in 1..n |-> " "]

RECURSIVE trimStart(_)
trimStart(s) ==
  IF s # <<>> /\ Head(s) = " " THEN trimStart(Tail(s)) ELSE s

RECURSIVE trimEnd(_)
trimEnd(s) ==
  IF s # <<>> /\ Last(s) = " " THEN trimEnd(Front(s)) ELSE s

trim(s) == trimEnd(trimStart(s))

\* String.prototype.substring: arguments clamped to 0..length, then ordered
substring(s, from, to) ==
  LET clamp(x) == IF x < 0 THEN 0 ELSE IF x > Len(s) THEN Len(s) ELSE x
      a == clamp(from)
      b == clamp(to)
  IN  SubSeq(s, (IF a < b THEN a ELSE b) + 1, IF a < b THEN b ELSE a)

Occurrences(s, pat) ==
  {i \in 0..(Len(s) - Len(pat)) : SubSeq(s, i + 1, i + Len(pat)) = pat}

indexOf(s, pat) ==
  IF Occurrences(s, pat) = {} THEN -1 ELSE SetMin(Occurrences(s, pat))

lastIndexOf(s, pat) ==
  IF Occurrences(s, pat) = {} THEN -1 ELSE SetMax(Occurrences(s, pat))

includes(s, pat) == Occurrences(s, pat) # {}

RECURSIVE wordPrefix(_)
wordPrefix(s) ==
  IF s # <<>> /\ Head(s) \in Word THEN <<Head(s)>> \o wordPrefix(Tail(s))
  ELSE <<>>

Node(type, text, children) ==
  [type |-> type, value |-> text, children |-> children]

NullNode == Node("null", <<>>, <<>>)

EmptyAst == [imports |-> <<>>, state |-> <<>>, markup |-> <<>>]

getIndent(lineIndex) ==
  Len(lines[lineIndex + 1]) - Len(trimStart(lines[lineIndex + 1]))

isBlankOrComment(t) == t = <<>> \/ startsWith(t, <<"/", "/">>)

\* /^@@[A-Z]/, /^&\w/, /^[.#a-zA-Z]/, /^[.#@&a-zA-Z]/
matchComponentRef(t) ==
  Len(t) >= 3 /\ t[1] = "@" /\ t[2] = "@" /\ t[3] \in Upper
matchAliasUse(t) == Len(t) >= 2 /\ t[1] = "&" /\ t[2] \in Word
matchElement(t) == t # <<>> /\ t[1] \in {".", "#"} \cup Lower \cup Upper
matchMarkupStart(t) ==
  t # <<>> /\ t[1] \in {".", "#", "@", "&"} \cup Lower \cup Upper

\* /^\?\s+(.+)/ and /^\$(\w+)/ on a trimmed line
matchConditional(t) == Len(t) >= 3 /\ t[1] = "?" /\ t[2] = " "
conditionOf(t) == trimStart(Tail(t))
matchLoop(t) == t # <<>> /\ t[1] = "$" /\ wordPrefix(Tail(t)) # <<>>
arrayNameOf(t) == <<"$">> \o wordPrefix(Tail(t))

\* parseState: /^\$(\w+)\s*:=\s*(.+)$/, then /^\$(\w+)\s*:\s*(.+)$/
parseState(t, state) ==
  LET name == wordPrefix(Tail(t))
      rest == trimStart(SubSeq(t, Len(name) + 2, Len(t)))
      afterDefine == trimStart(SubSeq(rest, 3, Len(rest)))
      afterColon == trimStart(Tail(rest))
  IN  IF name # <<>> /\ startsWith(rest, <<":", "=">>) /\ afterDefine # <<>>
        THEN Append(state, [name |-> name, initial |-> afterDefine,
                            computed |-> TRUE])
      ELSE IF name # <<>> /\ startsWith(rest, <<":">>) /\ afterColon # <<>>
        THEN Append(state, [name |-> name, initial |-> afterColon,
                            computed |-> FALSE])
      ELSE state

RECURSIVE findContentBracketFrom(_, _, _)
findContentBracketFrom(line, i, depth) ==
  IF i >= Len(line) THEN -1
  ELSE IF CharAt(line, i) = "["
    THEN IF IsArbitraryBracket(line, i)
           THEN findContentBracketFrom(line, i + 1, depth + 1)
           ELSE IF depth = 0 THEN i
                ELSE findContentBracketFrom(line, i + 1, depth)
  ELSE findContentBracketFrom(line, i + 1,
         IF CharAt(line, i) = "]" /\ depth > 0 THEN depth - 1 ELSE depth)

findContentBracket(line) == findContentBracketFrom(line, 0, 0)

\* parseMultilineBlock: the loop that looks for the closing fence
RECURSIVE blockScan(_, _)
blockScan(p, codeLines) ==
  IF p >= Len(lines)
    THEN [codeLines |-> codeLines, closed |-> FALSE, pos |-> p]
  ELSE LET line == lines[p + 1]
           beforeEnd == trim(substring(line, 0, indexOf(line, Fence)))
       IN  IF includes(line, Fence \o <<"]">>) \/ trim(line) = Fence
             THEN [codeLines |-> IF beforeEnd # <<>>
                                   THEN Append(codeLines, beforeEnd)
                                   ELSE codeLines,
                   closed |-> TRUE, pos |-> p]
             ELSE blockScan(p + 1, Append(codeLines, trim(line)))

\* parseMultilineBlock(startPos): startPos indexes the trimmed line, the
\* line it is applied to is the untrimmed this.lines[this.pos].  The code of
\* a one-line block is split at backslash-n, which no line here contains.
parseMultilineBlock(startPos) ==
  LET currentLine == lines[pos + 1]
      bracketContent == substring(currentLine, startPos, Len(currentLine))
      code == substring(bracketContent, indexOf(bracketContent, Fence) + 3,
                        lastIndexOf(bracketContent, Fence))
      firstLineContent == trim(substring(bracketContent, 3,
                                         Len(bracketContent)))
      scan == blockScan(pos + 1,
                IF firstLineContent # <<>>
                   /\ ~startsWith(firstLineContent, Fence)
                  THEN <<firstLineContent>> ELSE <<>>)
  IN  IF includes(bracketContent, Fence)
         /\ lastIndexOf(bracketContent, Fence) > 3
        THEN [children |-> IF trim(code) # <<>>
                             THEN <<Node("TextBlock", code, <<>>)>>
                             ELSE <<>>,
              pos |-> pos]
        ELSE [children |-> [i \in 1..Len(scan.codeLines) |->
                              Node("CodeLine", scan.codeLines[i], <<>>)],
              pos |-> IF scan.closed THEN scan.pos ELSE pos]

\* parseMarkup up to its call of parseChildren
parseMarkupHead ==
  LET line == trim(lines[pos + 1])
      bracketIndex == findContentBracket(line)
      elementDef == IF bracketIndex >= 0
                      THEN substring(line, 0, bracketIndex) ELSE line
      content == substring(line, bracketIndex + 1,
                           lastIndexOf(line, <<"]">>))
      block == parseMultilineBlock(bracketIndex + 1)
      inline == IF content = <<>> THEN <<>>
                ELSE <<Node("Inline", content, <<>>)>>
  IN  IF bracketIndex < 0
        THEN [node |-> Node("Element", elementDef, <<>>), pos |-> pos + 1]
      ELSE IF startsWith(content, Fence)
        THEN [node |-> Node("Element", elementDef, block.children),
              pos |-> block.pos + 1]
      ELSE [node |-> Node("Element", elementDef, inline), pos |-> pos + 1]

CallFrame(kind, indent, node) ==
  [kind |-> kind, indent |-> indent, node |-> node, children |-> <<>>]

PTop == pframes[Len(pframes)]

AddChild(frames, node) ==
  [frames EXCEPT ![Len(frames)].children = Append(@, node)]

\* parse(): the lines ahead of the markup
separatorIndex ==
  LET hits == {i \in 0..(Len(lines) - 1) : trim(lines[i + 1]) = <<"<", "?">>}
  IN  IF hits = {} THEN -1 ELSE SetMin(hits)

RECURSIVE headerScan(_, _, _)
headerScan(p, stop, state) ==
  IF p >= stop THEN state
  ELSE headerScan(p + 1, stop,
         IF startsWith(trim(lines[p + 1]), <<"$">>)
           THEN parseState(trim(lines[p + 1]), state) ELSE state)

RECURSIVE legacyScan(_, _)
legacyScan(p, state) ==
  IF p >= Len(lines) THEN [found |-> FALSE, pos |-> p, state |-> state]
  ELSE LET line == trim(lines[p + 1])
       IN  IF isBlankOrComment(line) THEN legacyScan(p + 1, state)
           ELSE IF startsWith(line, <<"$">>)
             THEN legacyScan(p + 1, parseState(line, state))
           ELSE IF startsWith(line, <<"~">>) THEN legacyScan(p + 1, state)
           ELSE IF startsWith(line, <<"&">>) /\ includes(line, <<"=">>)
             THEN legacyScan(p + 1, state)
           ELSE IF matchMarkupStart(line)
             THEN [found |-> TRUE, pos |-> p, state |-> state]
           ELSE legacyScan(p + 1, state)

Indented(src, unit) ==
  [i \in 1..Len(src) |-> Spaces(src[i].level * unit) \o src[i].text]

\* new Parser(source)
ParserNew(src, unit) ==
  /\ lines = Indented(src, unit)
  /\ pos = 0
  /\ ast = EmptyAst
  /\ pframes = <<>>
  /\ ppc = "new"

\* parse() up to its call of parseRootElements, or to its return when the
\* source has no markup
ParseHeader ==
  /\ ppc = "new"
  /\ IF separatorIndex # -1
       THEN /\ ast' = [ast EXCEPT
                         !.state = headerScan(0, separatorIndex, @)]
            /\ pos' = separatorIndex + 1
            /\ pframes' = <<CallFrame("root", 0, NullNode)>>
            /\ ppc' = "parsing"
       ELSE LET scan == legacyScan(0, ast.state)
            IN  /\ ast' = [ast EXCEPT !.state = scan.state]
                /\ pos' = scan.pos
                /\ pframes' = IF scan.found
                                THEN <<CallFrame("root", 0, NullNode)>>
                                ELSE <<>>
                /\ ppc' = IF scan.found THEN "parsing" ELSE "done"
  /\ UNCHANGED <<source, units, run, lines, firstAst>>

InRoot == ppc = "parsing" /\ PTop.kind = "root"
InChildren == ppc = "parsing" /\ PTop.kind # "root"
HasLine == pos < Len(lines)
Trimmed == trim(lines[pos + 1])

RootTakes ==
  /\ getIndent(pos) = 0
  /\ matchComponentRef(Trimmed) \/ matchAliasUse(Trimmed)
       \/ matchElement(Trimmed)

\* parseRootElements: a blank or comment line, or an indented line that
\* no case takes
RootSkip ==
  /\ InRoot /\ HasLine
  /\ isBlankOrComment(Trimmed) \/ getIndent(pos) # 0
  /\ pos' = pos + 1
  /\ UNCHANGED <<source, units, run, lines, ast, pframes, firstAst, ppc>>

\* parseRootElements: @@Name at indent 0
RootComponent ==
  /\ InRoot /\ HasLine
  /\ getIndent(pos) = 0
  /\ matchComponentRef(Trimmed)
  /\ pframes' = AddChild(pframes,
                  Node("Component", substring(Trimmed, 2, Len(Trimmed)), <<>>))
  /\ ast' = [ast EXCEPT
               !.imports = Append(@, substring(Trimmed, 2, Len(Trimmed)))]
  /\ pos' = pos + 1
  /\ UNCHANGED <<source, units, run, lines, firstAst, ppc>>

\* parseRootElements: an alias use or an element at indent 0
RootMarkup ==
  /\ InRoot /\ HasLine
  /\ getIndent(pos) = 0
  /\ ~matchComponentRef(Trimmed)
  /\ matchAliasUse(Trimmed) \/ matchElement(Trimmed)
  /\ pframes' = Append(pframes, CallFrame("markup", getIndent(pos),
                                          parseMarkupHead.node))
  /\ pos' = parseMarkupHead.pos
  /\ UNCHANGED <<source, units, run, lines, ast, firstAst, ppc>>

\* parseRootElements returns (end of the lines, or a line at indent 0 that
\* no case takes), and parse() with it
RootReturn ==
  /\ InRoot
  /\ IF HasLine
       THEN ~isBlankOrComment(Trimmed) /\ getIndent(pos) = 0 /\ ~RootTakes
       ELSE TRUE
  /\ ast' = [ast EXCEPT !.markup = PTop.children]
  /\ pframes' = <<>>
  /\ ppc' = "done"
  /\ UNCHANGED <<source, units, run, lines, pos, firstAst>>

ChildrenOverStrict ==
  IF HasLine THEN getIndent(pos) < PTop.indent /\ Trimmed # <<>> ELSE TRUE

ChildrenOver ==
  IF HasLine THEN getIndent(pos) <= PTop.indent /\ Trimmed # <<>> ELSE TRUE

IsVariableLine(t) == startsWith(t, <<"$">>) /\ ~includes(t, <<"[">>)

hasChildren ==
  /\ (IF pos + 1 < Len(lines) THEN getIndent(pos + 1) ELSE 0) > getIndent(pos)
  /\ trim(lines[pos + 2]) # <<>>

\* parseChildren returns; its caller completes the node and hands it on
ChildrenReturn ==
  /\ InChildren
  /\ ChildrenOver
  /\ pframes' = AddChild(Front(pframes),
                  [PTop.node EXCEPT !.children = @ \o PTop.children])
  /\ UNCHANGED <<source, units, run, lines, pos, ast, firstAst, ppc>>

ChildSkip ==
  /\ InChildren /\ ~ChildrenOver
  /\ isBlankOrComment(Trimmed)
  /\ pos' = pos + 1
  /\ UNCHANGED <<source, units, run, lines, ast, pframes, firstAst, ppc>>

ChildText ==
  /\ InChildren /\ ~ChildrenOver
  /\ startsWith(Trimmed, <<"\"">>)
  /\ pframes' = AddChild(pframes, Node("Text", slice(Trimmed, 1, -1), <<>>))
  /\ pos' = pos + 1
  /\ UNCHANGED <<source, units, run, lines, ast, firstAst, ppc>>

ChildVariable ==
  /\ InChildren /\ ~ChildrenOver
  /\ IsVariableLine(Trimmed)
  /\ ~hasChildren
  /\ pframes' = AddChild(pframes, Node("Variable", Trimmed, <<>>))
  /\ pos' = pos + 1
  /\ UNCHANGED <<source, units, run, lines, ast, firstAst, ppc>>

\* the children array of a parseChildren call that no longer advances is
\* followed up to this length
MaxNulls == 3

\* parseLoop: without a match it returns null and leaves pos where it is
ChildLoop ==
  /\ InChildren /\ ~ChildrenOver
  /\ IsVariableLine(Trimmed)
  /\ hasChildren
  /\ IF matchLoop(Trimmed)
       THEN /\ pframes' = Append(pframes,
                            CallFrame("loop", getIndent(pos),
                                      Node("Loop", arrayNameOf(Trimmed), <<>>)))
            /\ pos' = pos + 1
       ELSE /\ Len(PTop.children) < MaxNulls
            /\ pframes' = AddChild(pframes, NullNode)
            /\ pos' = pos
  /\ UNCHANGED <<source, units, run, lines, ast, firstAst, ppc>>

\* parseConditional: without a match it returns null and leaves pos where
\* it is
ChildConditional ==
  /\ InChildren /\ ~ChildrenOver
  /\ ~startsWith(Trimmed, <<"\"">>)
  /\ ~IsVariableLine(Trimmed)
  /\ startsWith(Trimmed, <<"?">>)
  /\ IF matchConditional(Trimmed)
       THEN /\ pframes' = Append(pframes,
                            CallFrame("cond", getIndent(pos),
                                      Node("Conditional", conditionOf(Trimmed),
                                           <<>>)))
            /\ pos' = pos + 1
       ELSE /\ Len(PTop.children) < MaxNulls
            /\ pframes' = AddChild(pframes, NullNode)
            /\ pos' = pos
  /\ UNCHANGED <<source, units, run, lines, ast, firstAst, ppc>>

ChildComponent ==
  /\ InChildren /\ ~ChildrenOver
  /\ matchComponentRef(Trimmed)
  /\ pframes' = AddChild(pframes,
                  Node("Component", substring(Trimmed, 2, Len(Trimmed)), <<>>))
  /\ ast' = [ast EXCEPT
               !.imports =
                 IF substring(Trimmed, 2, Len(Trimmed)) \in Range(@)
                   THEN @
                   ELSE Append(@, substring(Trimmed, 2, Len(Trimmed)))]
  /\ pos' = pos + 1
  /\ UNCHANGED <<source, units, run, lines, firstAst, ppc>>

ChildMarkup ==
  /\ InChildren /\ ~ChildrenOver
  /\ matchAliasUse(Trimmed) \/ matchElement(Trimmed)
  /\ pframes' = Append(pframes, CallFrame("markup", getIndent(pos),
                                          parseMarkupHead.node))
  /\ pos' = parseMarkupHead.pos
  /\ UNCHANGED <<source, units, run, lines, ast, firstAst, ppc>>

\* parseChildren: a line that no case takes
ChildOther ==
  /\ InChildren /\ ~ChildrenOver
  /\ ~isBlankOrComment(Trimmed)
  /\ ~startsWith(Trimmed, <<"\"">>)
  /\ ~IsVariableLine(Trimmed)
  /\ ~startsWith(Trimmed, <<"?">>)
  /\ ~matchComponentRef(Trimmed)
  /\ ~matchAliasUse(Trimmed)
  /\ ~matchElement(Trimmed)
  /\ pos' = pos + 1
  /\ UNCHANGED <<source, units, run, lines, ast, pframes, firstAst, ppc>>

\* The same source, indented with the second unit, is parsed by a new Parser
ParseAgain ==
  /\ ppc = "done"
  /\ run = 1
  /\ firstAst' = ast
  /\ run' = 2
  /\ lines' = Indented(source, units[2])
  /\ pos' = 0
  /\ ast' = EmptyAst
  /\ pframes' = <<>>
  /\ ppc' = "new"
  /\ UNCHANGED <<source, units>>

MarkupTexts ==
  { <<"a">>,
    <<"\"", "t", "\"">>,
    <<"$", "x">>,
    <<"?", " ", "c">>,
    <<"@", "@", "A">>,
    <<"a", "[">> \o Fence \o <<"b", "]">>,
    Fence \o <<"]">>,
    <<>> }

SourceLines == [level : 0..MaxLevel, text : MarkupTexts]

\* Sources that open with a root element
MarkupSources ==
  {<<[level |-> 0, text |-> <<"a">>]>> \o rest :
     rest \in UNION {[1..n -> SourceLines] : n \in 0..(MaxLines - 1)}}

ParseStart(src, us) ==
  /\ source = src
  /\ units = us
  /\ run = 1
  /\ firstAst = EmptyAst
  /\ ParserNew(src, us[1])

ParseInit ==
  \E src \in MarkupSources : \E u1, u2 \in Units :
    u1 < u2 /\ ParseStart(src, <<u1, u2>>)

\* Sources with state lines, the <? separator and root lines of every kind,
\* and sources in which a bare $name child line is followed by blank lines,
\* comment lines and elements.
MaxDocLines == 3
MaxTail == 2

DocTexts ==
  { <<"$", "x", ":", "0">>,
    <<"$", "x", ":", "1">>,
    <<"<", "?">>,
    <<"a">>,
    <<"b">>,
    <<"\"", "t", "\"">> }

TailTexts == { <<>>, <<"/", "/", "c">>, <<"b">> }

HeaderSources ==
  UNION {[1..n -> [level : 0..1, text : DocTexts]] : n \in 1..MaxDocLines}

LoopSources ==
  {<<[level |-> 0, text |-> <<"a">>], [level |-> 1, text |-> <<"$", "x">>]>>
     \o tail :
     tail \in UNION {[1..n -> [level : 0..MaxLevel, text : TailTexts]] :
                       n \in 0..MaxTail}}

DocUnit == 2

\* Sources whose child lines start with ? or $ and may fail the pattern of
\* parseConditional or parseLoop
StallTexts ==
  { <<"?", "c">>,
    <<"?", " ", "c">>,
    <<"$", "-">>,
    <<"$", "x">>,
    <<"b">>,
    <<"\"", "t", "\"">>,
    <<>> }

StallSources ==
  {<<[level |-> 0, text |-> <<"a">>]>> \o tail :
     tail \in UNION {[1..n -> [level : 0..MaxLevel, text : StallTexts]] :
                       n \in 0..MaxTail}}

StallInit ==
  \E src \in StallSources :
    /\ source = src
    /\ units = <<DocUnit, DocUnit>>
    /\ run = 2
    /\ firstAst = EmptyAst
    /\ ParserNew(src, DocUnit)

DocInit ==
  \E src \in HeaderSources \cup LoopSources :
    /\ source = src
    /\ units = <<DocUnit, DocUnit>>
    /\ run = 2
    /\ firstAst = EmptyAst
    /\ ParserNew(src, DocUnit)

ParseIdle ==
  /\ source = <<>>
  /\ units = <<1, 1>>
  /\ run = 2
  /\ firstAst = EmptyAst
  /\ lines = <<>>
  /\ pos = 0
  /\ ast = EmptyAst
  /\ pframes = <<>>
  /\ ppc = "done"

(***************************************************************************)
(* The router.  router.slop is parsed into route definitions, which the    *)
(* compiled router hands to defineRoutes; createRouter's render looks the  *)
(* current location up with matchRoute.                                    *)
(*   routeSource : the lines of router.slop                                *)
(*   routes      : the runtime's route table                               *)
(*   pathname    : window.location.pathname                                *)
(*   ri          : matchRoute's position in the table, from 1              *)
(*   matched     : the component matchRoute returned, <<>> for null        *)
(*   rpc         : "new", "matching" or "done"                             *)
(***************************************************************************)
VARIABLES routeSource, routes, pathname, ri, matched, rpc

routerVars == <<routeSource, routes, pathname, ri, matched, rpc>>

MaxRoutes == 3
MaxPath == 3

RECURSIVE nonSpacePrefix(_)
nonSpacePrefix(s) ==
  IF s # <<>> /\ Head(s) # " " THEN <<Head(s)>> \o nonSpacePrefix(Tail(s))
  ELSE <<>>

RECURSIVE alnumPrefix(_)
alnumPrefix(s) ==
  IF s # <<>> /\ Head(s) \in Word \ {"_"}
    THEN <<Head(s)>> \o alnumPrefix(Tail(s))
  ELSE <<>>

\* the part of /^(\/[^\s]*)\s*>\s*@@([A-Z][a-zA-Z0-9]*)/ behind the path
\* group: <<>> when it does not match, else the component name
componentAfter(rest) ==
  LET r1 == trimStart(rest)
      r2 == IF r1 = <<>> THEN <<>> ELSE trimStart(Tail(r1))
  IN  IF /\ startsWith(r1, <<">">>)
         /\ startsWith(r2, <<"@", "@">>)
         /\ Len(r2) >= 3
         /\ r2[3] \in Upper
        THEN alnumPrefix(SubSeq(r2, 3, Len(r2)))
        ELSE <<>>

\* RouterParser.parse on one trimmed line: the routes it pushes
parseRouteLine(t) ==
  LET ks == {k \in 1..Len(nonSpacePrefix(t)) :
               componentAfter(SubSeq(t, k + 1, Len(t))) # <<>>}
      k == SetMax(ks)
  IN  IF t = <<>> \/ startsWith(t, <<"#">>) THEN <<>>
      ELSE IF Head(t) = "/" /\ ks # {}
        THEN <<[path |-> SubSeq(t, 1, k),
                component |-> componentAfter(SubSeq(t, k + 1, Len(t)))]>>
      ELSE <<>>

RECURSIVE parseRoutes(_)
parseRoutes(ls) ==
  IF ls = <<>> THEN <<>>
  ELSE parseRouteLine(trim(Head(ls))) \o parseRoutes(Tail(ls))

RECURSIVE segmentPrefix(_)
segmentPrefix(s) ==
  IF s # <<>> /\ Head(s) # "/" THEN <<Head(s)>> \o segmentPrefix(Tail(s))
  ELSE <<>>

\* s.split('/').filter(p => p)
RECURSIVE splitParts(_)
splitParts(s) ==
  IF s = <<>> THEN <<>>
  ELSE IF Head(s) = "/" THEN splitParts(Tail(s))
  ELSE <<segmentPrefix(s)>>
         \o splitParts(SubSeq(s, Len(segmentPrefix(s)) + 1, Len(s)))

NoMatch == [ok |-> FALSE, params |-> {}]

matchPath(pattern, p) ==
  LET patternParts == splitParts(pattern)
      pathParts == splitParts(p)
      isParam(i) == startsWith(patternParts[i], <<":">>)
  IN  IF pattern = <<"/">> /\ p = <<"/">> THEN [ok |-> TRUE, params |-> {}]
      ELSE IF Len(patternParts) # Len(pathParts) THEN NoMatch
      ELSE IF \A i \in 1..Len(patternParts) :
                isParam(i) \/ patternParts[i] = pathParts[i]
        THEN [ok |-> TRUE,
              params |-> {<<Tail(patternParts[i]), pathParts[i]>> :
                            i \in {j \in 1..Len(patternParts) : isParam(j)}}]
      ELSE NoMatch

\* the compiled router calls defineRoutes with the parsed definitions, and
\* createRouter's render calls matchRoute
DefineRoutes ==
  /\ rpc = "new"
  /\ routes' = parseRoutes(routeSource)
  /\ ri' = 1
  /\ rpc' = "matching"
  /\ UNCHANGED <<routeSource, pathname, matched>>

\* matchRoute: the route at ri matches
RouteMatch ==
  /\ rpc = "matching"
  /\ ri <= Len(routes)
  /\ matchPath(routes[ri].path, pathname).ok
  /\ matched' = routes[ri].component
  /\ rpc' = "done"
  /\ UNCHANGED <<routeSource, routes, pathname, ri>>

\* matchRoute: the route at ri does not match
RouteNext ==
  /\ rpc = "matching"
  /\ ri <= Len(routes)
  /\ ~matchPath(routes[ri].path, pathname).ok
  /\ ri' = ri + 1
  /\ UNCHANGED <<routeSource, routes, pathname, matched, rpc>>

\* matchRoute: no route matched, it returns null
RouteNull ==
  /\ rpc = "matching"
  /\ ri > Len(routes)
  /\ matched' = <<>>
  /\ rpc' = "done"
  /\ UNCHANGED <<routeSource, routes, pathname, ri>>

RouteLine(path, component) ==
  path \o <<" ", ">", " ", "@", "@">> \o component

RouteLines ==
  { RouteLine(<<"/">>, <<"H">>),
    RouteLine(<<"/", "a">>, <<"A">>),
    RouteLine(<<"/", ":", "i">>, <<"D">>),
    RouteLine(<<"/", "*">>, <<"N">>),
    <<"#", " ", "c">> }

Pathnames ==
  {<<"/">> \o rest :
     rest \in UNION {[1..n -> {"/", "a", "b"}] : n \in 0..(MaxPath - 1)}}

RouterInit ==
  /\ routeSource \in UNION {[1..n -> RouteLines] : n \in 1..MaxRoutes}
  /\ pathname \in Pathnames
  /\ routes = <<>>
  /\ ri = 1
  /\ matched = <<>>
  /\ rpc = "new"

RouterIdle ==
  /\ routeSource = <<>>
  /\ pathname = <<"/">>
  /\ routes = <<>>
  /\ ri = 1
  /\ matched = <<>>
  /\ rpc = "done"

(***************************************************************************)
(* The in-memory fallback of Database.getTable: a table is an array of     *)
(* records; a record is [id, name], name standing for the other fields.    *)
(* The data passed to insert and update is [hasId, id, name]: hasId tells  *)
(* whether the object carries an id key of its own.                        *)
(***************************************************************************)
VARIABLES table

storeVars == <<table>>

MaxRecords == 3

RecordNames == {"a", "b"}

StoreData == [hasId : BOOLEAN, id : 1..MaxRecords, name : RecordNames]

\* findIndex(item => item.id === id), -1 as 0
findIndex(t, id) ==
  LET hits == {i \in 1..Len(t) : t[i].id = id}
  IN  IF hits = {} THEN 0 ELSE CHOOSE i \in hits : \A j \in hits : i <= j

\* splice(index, 1)
splice(t, index) == SubSeq(t, 1, index - 1) \o SubSeq(t, index + 1, Len(t))

\* { id, ...data }: a key of data replaces the one written before it
Spread(id, data) ==
  [id |-> IF data.hasId THEN data.id ELSE id, name |-> data.name]

NextId(t) == Len(t) + 1

StoreInsert ==
  /\ Len(table) < MaxRecords
  /\ \E data \in StoreData :
       table' = Append(table, Spread(NextId(table), data))

StoreUpdate ==
  \E id \in 1..MaxRecords, data \in StoreData :
    /\ findIndex(table, id) # 0
    /\ table' = [table EXCEPT ![findIndex(table, id)] = Spread(@.id, data)]

StoreDelete ==
  \E id \in 1..MaxRecords :
    /\ findIndex(table, id) # 0
    /\ table' = splice(table, findIndex(table, id))

\* a lookup of an id no record holds returns null and changes nothing
StoreMiss ==
  /\ \E id \in 1..MaxRecords : findIndex(table, id) = 0
  /\ table' = table

StoreInit == table = <<>>

StoreIdle == StoreInit

(***************************************************************************)
(* compileFetchChain and the promise chain it generates.  A pipeline is    *)
(* the action split on ">": part 1 is the fetch, each later part a stage   *)
(* [kind, cell, val] of kind "data" ($cell), "assign" ($cell:val) or       *)
(* "other" (a part that starts with neither fetch nor $).                  *)
(*   pipeline : the parts                                                  *)
(*   chain    : the .then callbacks of the generated code, each [part,     *)
(*              cell, val], after the r => r.json() callback               *)
(*   link     : the callback that runs next                                *)
(*   carried  : the value the promise chain hands to the next callback     *)
(*   cells    : the values of the cells                                    *)
(*   arrived  : the response has arrived                                   *)
(*   writes   : the parts whose write has happened, in order (history)     *)
(***************************************************************************)
VARIABLES pipeline, chain, link, carried, cells, arrived, writes, cpc

chainVars == <<pipeline, chain, link, carried, cells, arrived, writes, cpc>>

MaxStages == 3

StageCells == {"users", "loading"}

Stages ==
  { [kind |-> "data", cell |-> "users", val |-> "data"],
    [kind |-> "assign", cell |-> "loading", val |-> "false"],
    [kind |-> "assign", cell |-> "users", val |-> "false"],
    [kind |-> "other", cell |-> "users", val |-> "data"] }

FetchPart == [kind |-> "fetch", cell |-> "users", val |-> "data"]

Pipelines ==
  {<<FetchPart>> \o st :
     st \in UNION {[1..n -> Stages] : n \in 0..MaxStages}}

\* a chain whose newest callback runs first
ThenFirst(code, cb) == <<cb>> \o code

\* code += .then(callback)
Then(code, cb) == Append(code, cb)

RECURSIVE compileFetchChain(_, _, _)
compileFetchChain(ps, i, code) ==
  IF i > Len(ps) THEN code
  ELSE compileFetchChain(ps, i + 1,
         IF ps[i].kind = "fetch" THEN <<>>
         ELSE IF ps[i].kind \in {"data", "assign"}
           THEN Then(code, [part |-> i, kind |-> ps[i].kind,
                            cell |-> ps[i].cell, val |-> ps[i].val])
           ELSE code)

\* the generator compiles the effect's action
ChainCompile ==
  /\ cpc = "new"
  /\ chain' = compileFetchChain(pipeline, 1, <<>>)
  /\ cpc' = "compiled"
  /\ UNCHANGED <<pipeline, link, carried, cells, arrived, writes>>

\* the effect runs on mount: fetch(url) is called
ChainFetch ==
  /\ cpc = "compiled"
  /\ cpc' = "requested"
  /\ UNCHANGED <<pipeline, chain, link, carried, cells, arrived, writes>>

\* the response arrives and r => r.json() resolves with the data
ChainResponse ==
  /\ cpc = "requested"
  /\ arrived' = TRUE
  /\ carried' = "data"
  /\ cpc' = IF chain = <<>> THEN "done" ELSE "then"
  /\ UNCHANGED <<pipeline, chain, link, cells, writes>>

\* the request fails: the chain is rejected and no callback runs
ChainFail ==
  /\ cpc = "requested"
  /\ cpc' = "rejected"
  /\ UNCHANGED <<pipeline, chain, link, carried, cells, arrived, writes>>

\* what a callback assigns: data => { $cell.value = data; } or
\* () => { $cell.value = val; }
Assigned(cb) == IF cb.kind = "data" THEN carried ELSE cb.val

\* the next callback runs; it returns undefined, which the chain hands on.
\* If a subscriber of the cell throws, the chain is rejected after the write.
ChainThen ==
  /\ cpc = "then"
  /\ cells' = [cells EXCEPT ![chain[link].cell] = Assigned(chain[link])]
  /\ writes' = Append(writes, chain[link].part)
  /\ carried' = "undefined"
  /\ link' = link + 1
  /\ \E throws \in BOOLEAN :
       cpc' = IF throws THEN "rejected"
              ELSE IF link = Len(chain) THEN "done" ELSE "then"
  /\ UNCHANGED <<pipeline, chain, arrived>>

ChainStart(ps) ==
  /\ pipeline = ps
  /\ chain = <<>>
  /\ link = 1
  /\ carried = "undefined"
  /\ cells = [c \in StageCells |-> "initial"]
  /\ arrived = FALSE
  /\ writes = <<>>

ChainInit == cpc = "new" /\ \E ps \in Pipelines : ChainStart(ps)

ChainIdle == cpc = "done" /\ ChainStart(<<FetchPart>>)

(***************************************************************************)
(* Code generation for a component's markup tree, and the render function  *)
(* it produces.  A markup node is [type, classes, children]: an Element    *)
(* with its classes and children, a Conditional with its true branch as    *)
(* children (the parser leaves the false branch empty), a Loop with its    *)
(* template as children.  Every Conditional tests the cell $flag; a Loop   *)
(* runs over an array of one item.  A value of the generated render code   *)
(* is [v, classes, kids]: a DOM node with its class string and child       *)
(* nodes, an array with its items as kids, or null.                        *)
(*   markup       : the component's root element                           *)
(*   flag         : the value of $flag                                     *)
(*   generated    : generate() has run                                     *)
(*   css          : the selectors of the rules generateCSS emitted         *)
(*   classStrings : for each element, in render order, [classes, class]:   *)
(*                  its declared classes and the class string in its props *)
(*   rendered     : the child nodes of the root after the last render pass *)
(*   renderedWith : the value $flag had at that pass, as <<value>>; <<>>   *)
(*                  before the first pass                                  *)
(***************************************************************************)
VARIABLES markup, flag, generated, css, classStrings, rendered, renderedWith

markupVars ==
  <<markup, flag, generated, css, classStrings, rendered, renderedWith>>

MaxKids == 2

MarkupName == <<"A">>

LocalClasses == { <<"b", "o", "x">>, <<"n", "o", "t", "e">> }

LeafClasses == LocalClasses \cup { <<"f", "l", "e", "x">> }

Markup(type, classes, children) ==
  [type |-> type, classes |-> classes, children |-> children]

Leaf(c) == Markup("Element", <<c>>, <<>>)

\* an element with one class: itself, or inside an element without classes,
\* a Conditional or a Loop
Kids ==
  {Leaf(c) : c \in LeafClasses}
    \cup {Markup(t, <<>>, <<Leaf(c)>>) :
            t \in {"Element", "Conditional", "Loop"}, c \in LeafClasses}

Markups ==
  {Markup("Element", cl, ks) :
     cl \in {<<>>, << <<"b", "o", "x">> >>},
     ks \in UNION {[1..n -> Kids] : n \in 0..MaxKids}}

\* collectStyles: the rules of one element's classes
RECURSIVE classRules(_, _)
classRules(classes, id) ==
  IF classes = <<>> THEN <<>>
  ELSE (IF isUtilityClass(Head(classes)) THEN <<>>
        ELSE <<scopedClass(Head(classes), id)>>)
       \o classRules(Tail(classes), id)

RECURSIVE collectStyles(_, _)
RECURSIVE collectStylesOfChildren(_, _)
RECURSIVE collectStylesOfBranch(_, _)
collectStyles(element, id) ==
  IF element.type # "Element" THEN <<>>
  ELSE classRules(element.classes, id)
         \o collectStylesOfChildren(element.children, id)

\* element.children.forEach: an Element child and the members of a
\* Conditional child's branches are walked, other children are not
collectStylesOfChildren(children, id) ==
  IF children = <<>> THEN <<>>
  ELSE (IF Head(children).type = "Element"
          THEN collectStyles(Head(children), id)
        ELSE IF Head(children).type = "Conditional"
          THEN collectStylesOfBranch(Head(children).children, id)
        ELSE <<>>)
       \o collectStylesOfChildren(Tail(children), id)

collectStylesOfBranch(els, id) ==
  IF els = <<>> THEN <<>>
  ELSE collectStyles(Head(els), id) \o collectStylesOfBranch(Tail(els), id)

\* generateProps: props.class
RECURSIVE generateProps(_, _)
generateProps(classes, id) ==
  IF classes = <<>> THEN <<>>
  ELSE <<IF isUtilityClass(Head(classes)) THEN Head(classes)
         ELSE scopedClass(Head(classes), id)>>
       \o generateProps(Tail(classes), id)

\* the class strings generateElement writes, element by element
RECURSIVE propsOfTree(_, _)
RECURSIVE propsOfAll(_, _)
propsOfTree(element, id) ==
  (IF element.type = "Element"
     THEN <<[classes |-> element.classes,
             class |-> generateProps(element.classes, id)]>>
     ELSE <<>>)
    \o propsOfAll(element.children, id)

propsOfAll(els, id) ==
  IF els = <<>> THEN <<>>
  ELSE propsOfTree(Head(els), id) \o propsOfAll(Tail(els), id)

NullValue == [v |-> "null", classes |-> <<>>, kids |-> <<>>]
ArrayOf(items) == [v |-> "array", classes |-> <<>>, kids |-> items]
DomNode(classes, kids) == [v |-> "node", classes |-> classes, kids |-> kids]

\* h: a child that is a Node is appended; an array among the children is
\* neither a string nor a Node and has no value property, so it is dropped
appendChildren(children) ==
  IF children.v = "null" THEN <<>>
  ELSE SelectSeq(IF children.v = "array" THEN children.kids ELSE <<children>>,
                 LAMBDA child : child.v = "node")

\* the value of the expression generateElement emits for a node, and of the
\* one generateChildren emits for a list of children, with $flag = f
RECURSIVE generateElement(_, _, _)
RECURSIVE generateChildren(_, _, _)
RECURSIVE generateEach(_, _, _)
generateElement(element, id, f) ==
  IF element.type = "Conditional"
    THEN IF Truthy(f) THEN ArrayOf(generateEach(element.children, id, f))
         ELSE ArrayOf(<<>>)
  ELSE IF element.type = "Loop"
    THEN DomNode(<<>>,
           SelectSeq(generateEach(element.children, id, f),
                     LAMBDA el : el.v = "node"))
  ELSE DomNode(generateProps(element.classes, id),
               appendChildren(generateChildren(element.children, id, f)))

generateChildren(children, id, f) ==
  IF Len(children) = 0 THEN NullValue
  ELSE IF Len(children) = 1 THEN generateElement(children[1], id, f)
  ELSE ArrayOf(generateEach(children, id, f))

generateEach(els, id, f) ==
  IF els = <<>> THEN <<>>
  ELSE <<generateElement(Head(els), id, f)>> \o generateEach(Tail(els), id, f)

\* generate(): generateJS and generateCSS
Generate ==
  /\ ~generated
  /\ generated' = TRUE
  /\ css' = collectStyles(markup, generateScopeId(MarkupName))
  /\ classStrings' = propsOfTree(markup, generateScopeId(MarkupName))
  /\ UNCHANGED <<markup, flag, rendered, renderedWith>>

\* render() is called: the root element is built from the current cells
RenderPass ==
  /\ generated
  /\ rendered' = generateElement(markup, generateScopeId(MarkupName), flag).kids
  /\ renderedWith' = <<flag>>
  /\ UNCHANGED <<markup, flag, generated, css, classStrings>>

\* an event handler writes $flag
FlagWrite ==
  /\ generated
  /\ \E v \in {0, 1} : v # flag /\ flag' = v
  /\ UNCHANGED <<markup, generated, css, classStrings, rendered, renderedWith>>

MarkupStart(m, f) ==
  /\ markup = m
  /\ flag = f
  /\ css = <<>>
  /\ classStrings = <<>>
  /\ rendered = <<>>
  /\ renderedWith = <<>>

MarkupInit ==
  /\ generated = FALSE
  /\ \E m \in Markups, f \in {0, 1} : MarkupStart(m, f)

MarkupIdle ==
  /\ generated = TRUE
  /\ MarkupStart(Markup("Element", <<>>, <<>>), 0)

restVars == <<storeVars, chainVars, markupVars>>

RestIdle == StoreIdle /\ ChainIdle /\ MarkupIdle

(***************************************************************************)
(* Specifications.  Each runs one part of the program; the state of the    *)
(* other parts stays as constructed.                                       *)
(***************************************************************************)
vars == <<sigVars, domVars, bracketVars, scopeVars, parseVars, fetchVars,
          routerVars, restVars>>

besidesSig == <<domVars, bracketVars, scopeVars, parseVars, fetchVars,
  routerVars, restVars>>
besidesDom == <<bracketVars, scopeVars, parseVars, fetchVars,
  routerVars, restVars>>
besidesBracket == <<sigVars, domVars, scopeVars, parseVars, fetchVars,
  routerVars, restVars>>
besidesScope == <<sigVars, domVars, bracketVars, parseVars, fetchVars,
  routerVars, restVars>>
besidesParse == <<sigVars, domVars, bracketVars, scopeVars, fetchVars,
  routerVars, restVars>>

\* The reactive runtime under arbitrary host calls.
Init == SigInit /\ DomIdle /\ BracketIdle /\ ScopeIdle /\ ParseIdle /\ FetchIdle
    /\ RouterIdle /\ RestIdle

Next ==
  \/ HostCall /\ UNCHANGED besidesSig
  \/ HostCatch /\ UNCHANGED besidesSig
  \/ ExecRd /\ UNCHANGED besidesSig
  \/ ExecWr /\ UNCHANGED besidesSig
  \/ ExecEffect /\ UNCHANGED besidesSig
  \/ ExecSubscribe /\ UNCHANGED besidesSig
  \/ ExecUnsubscribe /\ UNCHANGED besidesSig
  \/ ExecThrow /\ UNCHANGED besidesSig
  \/ Return /\ UNCHANGED besidesSig
  \/ NotifyNext /\ UNCHANGED besidesSig
  \/ NotifyDone /\ UNCHANGED besidesSig
  \/ Unwind /\ UNCHANGED besidesSig

Spec == Init /\ [][Next]_vars

\* The mounted component under clicks and fetch responses.
InitDom == DomInit /\ BracketIdle /\ ScopeIdle /\ ParseIdle /\ FetchIdle
    /\ RouterIdle /\ RestIdle

NextDom ==
  \/ DomMount /\ UNCHANGED besidesDom
  \/ DomClick /\ UNCHANGED besidesDom
  \/ DomFetched /\ UNCHANGED besidesDom
  \/ DomFetchedNothing /\ UNCHANGED besidesDom
  \/ DomRewrite /\ UNCHANGED besidesDom
  \/ ExecListRender /\ UNCHANGED besidesDom
  \/ ExecWr /\ UNCHANGED <<domVars, besidesDom>>
  \/ ExecInc /\ UNCHANGED <<domVars, besidesDom>>
  \/ Return /\ UNCHANGED <<domVars, besidesDom>>
  \/ NotifyNext /\ UNCHANGED <<domVars, besidesDom>>
  \/ NotifyDone /\ UNCHANGED <<domVars, besidesDom>>

SpecDom == InitDom /\ [][NextDom]_vars

\* A computed cell over s1 and s2, effects beside it, and host writes.
InitComputed ==
  ComputedInit /\ DomIdle /\ BracketIdle /\ ScopeIdle /\ ParseIdle /\ FetchIdle
    /\ RouterIdle /\ RestIdle

NextComputed ==
  \/ ComputedHostCall /\ UNCHANGED besidesSig
  \/ ExecCompute /\ UNCHANGED besidesSig
  \/ ExecRd /\ UNCHANGED besidesSig
  \/ ExecWr /\ UNCHANGED besidesSig
  \/ ExecEffect /\ UNCHANGED besidesSig
  \/ Return /\ UNCHANGED besidesSig
  \/ NotifyNext /\ UNCHANGED besidesSig
  \/ NotifyDone /\ UNCHANGED besidesSig

SpecComputed == InitComputed /\ [][NextComputed]_vars

\* computed(fn) together with effects reading a source signal and the
\* derived cell.
InitGlitch ==
  ComputedInit /\ DomIdle /\ BracketIdle /\ ScopeIdle /\ ParseIdle /\ FetchIdle
    /\ RouterIdle /\ RestIdle

NextGlitch ==
  \/ GlitchHostCall /\ UNCHANGED besidesSig
  \/ ExecCompute /\ UNCHANGED besidesSig
  \/ ExecRd /\ UNCHANGED besidesSig
  \/ ExecWr /\ UNCHANGED besidesSig
  \/ ExecEffect /\ UNCHANGED besidesSig
  \/ Return /\ UNCHANGED besidesSig
  \/ NotifyNext /\ UNCHANGED besidesSig
  \/ NotifyDone /\ UNCHANGED besidesSig

SpecGlitch == InitGlitch /\ [][NextGlitch]_vars

besidesFetch == <<domVars, bracketVars, scopeVars, parseVars,
  routerVars, restVars>>

\* A component with a fetch effect, event handlers writing the cell its url
\* may read, and the responses arriving in any order.
InitFetch ==
  SigInit /\ DomIdle /\ BracketIdle /\ ScopeIdle /\ ParseIdle /\ FetchInit
    /\ RouterIdle /\ RestIdle

NextFetch ==
  \/ FetchMount /\ UNCHANGED besidesFetch
  \/ FetchHostWrite /\ UNCHANGED besidesFetch
  \/ ExecFetch /\ UNCHANGED besidesFetch
  \/ FetchResponse /\ UNCHANGED besidesFetch
  \/ FetchData /\ UNCHANGED besidesFetch
  \/ ExecRd /\ UNCHANGED <<fetchVars, besidesFetch>>
  \/ ExecWr /\ UNCHANGED <<fetchVars, besidesFetch>>
  \/ ExecEffect /\ UNCHANGED <<fetchVars, besidesFetch>>
  \/ Return /\ UNCHANGED <<fetchVars, besidesFetch>>
  \/ NotifyNext /\ UNCHANGED <<fetchVars, besidesFetch>>
  \/ NotifyDone /\ UNCHANGED <<fetchVars, besidesFetch>>

SpecFetch == InitFetch /\ [][NextFetch]_vars

besidesRouter ==
  <<sigVars, domVars, bracketVars, scopeVars, parseVars, fetchVars, restVars>>

\* A router.slop of up to MaxRoutes lines and a location to look up.
InitRouter ==
  SigInit /\ DomIdle /\ BracketIdle /\ ScopeIdle /\ ParseIdle /\ FetchIdle
    /\ RouterInit /\ RestIdle

NextRouter ==
  \/ DefineRoutes /\ UNCHANGED besidesRouter
  \/ RouteMatch /\ UNCHANGED besidesRouter
  \/ RouteNext /\ UNCHANGED besidesRouter
  \/ RouteNull /\ UNCHANGED besidesRouter

SpecRouter == InitRouter /\ [][NextRouter]_vars

\* A component with a guarded effect, event handlers writing its cells,
\* and callbacks subscribed and unsubscribed by the host.
InitGuard ==
  GuardInit /\ DomIdle /\ BracketIdle /\ ScopeIdle /\ ParseIdle /\ FetchIdle
    /\ RouterIdle /\ RestIdle

NextGuard ==
  \/ GuardHostCall /\ UNCHANGED besidesSig
  \/ HostCatch /\ UNCHANGED besidesSig
  \/ ExecIf /\ UNCHANGED besidesSig
  \/ ExecInc /\ UNCHANGED besidesSig
  \/ ExecRd /\ UNCHANGED besidesSig
  \/ ExecWr /\ UNCHANGED besidesSig
  \/ ExecEffect /\ UNCHANGED besidesSig
  \/ ExecSubscribe /\ UNCHANGED besidesSig
  \/ ExecUnsubscribe /\ UNCHANGED besidesSig
  \/ Return /\ UNCHANGED besidesSig
  \/ NotifyNext /\ UNCHANGED besidesSig
  \/ NotifyDone /\ UNCHANGED besidesSig
  \/ StackOverflow /\ UNCHANGED besidesSig
  \/ Unwind /\ UNCHANGED besidesSig

SpecGuard == InitGuard /\ [][NextGuard]_vars

\* Effects and host code calling batch().
InitBatch ==
  GuardInit /\ DomIdle /\ BracketIdle /\ ScopeIdle /\ ParseIdle /\ FetchIdle
    /\ RouterIdle /\ RestIdle

NextBatch ==
  \/ BatchHostCall /\ UNCHANGED besidesSig
  \/ HostCatch /\ UNCHANGED besidesSig
  \/ ExecBatch /\ UNCHANGED besidesSig
  \/ ExecRd /\ UNCHANGED besidesSig
  \/ ExecWr /\ UNCHANGED besidesSig
  \/ ExecEffect /\ UNCHANGED besidesSig
  \/ ExecSubscribe /\ UNCHANGED besidesSig
  \/ ExecThrow /\ UNCHANGED besidesSig
  \/ Return /\ UNCHANGED besidesSig
  \/ NotifyNext /\ UNCHANGED besidesSig
  \/ NotifyDone /\ UNCHANGED besidesSig
  \/ Unwind /\ UNCHANGED besidesSig

SpecBatch == InitBatch /\ [][NextBatch]_vars

\* findContentBracket on every line up to MaxLine characters.
InitBracket == SigInit /\ DomIdle /\ BracketInit /\ ScopeIdle /\ ParseIdle /\ FetchIdle
    /\ RouterIdle /\ RestIdle

NextBracket ==
  \/ ScanStep /\ UNCHANGED besidesBracket
  \/ ScanEnd /\ UNCHANGED besidesBracket

SpecBracket == InitBracket /\ [][NextBracket]_vars

\* Two components compiled to style sheets, one after the other.
InitScope == SigInit /\ DomIdle /\ BracketIdle /\ ScopeInit /\ ParseIdle /\ FetchIdle
    /\ RouterIdle /\ RestIdle

NextScope ==
  \/ NewCodeGenerator /\ UNCHANGED besidesScope
  \/ CollectSkip /\ UNCHANGED besidesScope
  \/ CollectRule /\ UNCHANGED besidesScope
  \/ CollectEnd /\ UNCHANGED besidesScope
  \/ ArbitraryRule /\ UNCHANGED besidesScope
  \/ GenerateDone /\ UNCHANGED besidesScope

SpecScope == InitScope /\ [][NextScope]_vars

\* One source parsed twice, under two indentation units.
InitParse == SigInit /\ DomIdle /\ BracketIdle /\ ScopeIdle /\ ParseInit /\ FetchIdle
    /\ RouterIdle /\ RestIdle

NextParse ==
  \/ ParseHeader /\ UNCHANGED besidesParse
  \/ RootSkip /\ UNCHANGED besidesParse
  \/ RootComponent /\ UNCHANGED besidesParse
  \/ RootMarkup /\ UNCHANGED besidesParse
  \/ RootReturn /\ UNCHANGED besidesParse
  \/ ChildrenReturn /\ UNCHANGED besidesParse
  \/ ChildSkip /\ UNCHANGED besidesParse
  \/ ChildText /\ UNCHANGED besidesParse
  \/ ChildVariable /\ UNCHANGED besidesParse
  \/ ChildLoop /\ UNCHANGED besidesParse
  \/ ChildConditional /\ UNCHANGED besidesParse
  \/ ChildComponent /\ UNCHANGED besidesParse
  \/ ChildMarkup /\ UNCHANGED besidesParse
  \/ ChildOther /\ UNCHANGED besidesParse
  \/ ParseAgain /\ UNCHANGED besidesParse

SpecParse == InitParse /\ [][NextParse]_vars

\* parse() on sources with state lines, a separator and bare $name lines.
InitDoc ==
  SigInit /\ DomIdle /\ BracketIdle /\ ScopeIdle /\ DocInit /\ FetchIdle
    /\ RouterIdle /\ RestIdle

NextDoc ==
  \/ ParseHeader /\ UNCHANGED besidesParse
  \/ RootSkip /\ UNCHANGED besidesParse
  \/ RootMarkup /\ UNCHANGED besidesParse
  \/ RootReturn /\ UNCHANGED besidesParse
  \/ ChildrenReturn /\ UNCHANGED besidesParse
  \/ ChildSkip /\ UNCHANGED besidesParse
  \/ ChildText /\ UNCHANGED besidesParse
  \/ ChildVariable /\ UNCHANGED besidesParse
  \/ ChildLoop /\ UNCHANGED besidesParse
  \/ ChildMarkup /\ UNCHANGED besidesParse
  \/ ChildOther /\ UNCHANGED besidesParse

SpecDoc == InitDoc /\ [][NextDoc]_vars

\* parse() on sources with ? and $ child lines of every shape.
InitStall ==
  SigInit /\ DomIdle /\ BracketIdle /\ ScopeIdle /\ StallInit /\ FetchIdle
    /\ RouterIdle /\ RestIdle

NextStall ==
  \/ ParseHeader /\ UNCHANGED besidesParse
  \/ RootMarkup /\ UNCHANGED besidesParse
  \/ RootReturn /\ UNCHANGED besidesParse
  \/ ChildrenReturn /\ UNCHANGED besidesParse
  \/ ChildSkip /\ UNCHANGED besidesParse
  \/ ChildText /\ UNCHANGED besidesParse
  \/ ChildVariable /\ UNCHANGED besidesParse
  \/ ChildLoop /\ UNCHANGED besidesParse
  \/ ChildConditional /\ UNCHANGED besidesParse
  \/ ChildMarkup /\ UNCHANGED besidesParse

SpecStall == InitStall /\ [][NextStall]_vars

besidesMarkup ==
  <<sigVars, domVars, bracketVars, scopeVars, parseVars, fetchVars,
    routerVars, storeVars, chainVars>>

\* A component's markup tree is compiled; its render function is called
\* between writes of $flag.
InitMarkup ==
  SigInit /\ DomIdle /\ BracketIdle /\ ScopeIdle /\ ParseIdle /\ FetchIdle
    /\ RouterIdle /\ StoreIdle /\ ChainIdle /\ MarkupInit

NextMarkup ==
  \/ Generate /\ UNCHANGED besidesMarkup
  \/ RenderPass /\ UNCHANGED besidesMarkup
  \/ FlagWrite /\ UNCHANGED besidesMarkup

SpecMarkup == InitMarkup /\ [][NextMarkup]_vars

besidesChain ==
  <<sigVars, domVars, bracketVars, scopeVars, parseVars, fetchVars,
    routerVars, storeVars, markupVars>>

\* A fetch pipeline of up to MaxStages stages, compiled and run once.
InitChain ==
  SigInit /\ DomIdle /\ BracketIdle /\ ScopeIdle /\ ParseIdle /\ FetchIdle
    /\ RouterIdle /\ StoreIdle /\ ChainInit /\ MarkupIdle

NextChain ==
  \/ ChainCompile /\ UNCHANGED besidesChain
  \/ ChainFetch /\ UNCHANGED besidesChain
  \/ ChainResponse /\ UNCHANGED besidesChain
  \/ ChainFail /\ UNCHANGED besidesChain
  \/ ChainThen /\ UNCHANGED besidesChain

SpecChain == InitChain /\ [][NextChain]_vars

besidesStore ==
  <<sigVars, domVars, bracketVars, scopeVars, parseVars, fetchVars,
    routerVars, chainVars, markupVars>>

\* One table of the in-memory store under inserts, updates and deletes.
InitStore ==
  SigInit /\ DomIdle /\ BracketIdle /\ ScopeIdle /\ ParseIdle /\ FetchIdle
    /\ RouterIdle /\ StoreInit /\ ChainIdle /\ MarkupIdle

NextStore ==
  \/ StoreInsert /\ UNCHANGED besidesStore
  \/ StoreUpdate /\ UNCHANGED besidesStore
  \/ StoreDelete /\ UNCHANGED besidesStore
  \/ StoreMiss /\ UNCHANGED besidesStore

SpecStore == InitStore /\ [][NextStore]_vars

(***************************************************************************)
(* Properties of the reactive runtime.                                     *)
(***************************************************************************)
PassDone(i) == /\ stack[i].kind = "notify"
               /\ i = Len(stack)
               /\ ~thrown
               /\ stack[i].pc > Len(subscribers[stack[i].sig])

\* C1: when the notification pass of a changed write is over, the
\* callbacks it has invoked are exactly the subscribers the signal had when
\* the write began, each invoked once.
C1_ExactlyInitialSubscribers ==
  \A i \in 1..Len(stack) :
    PassDone(i) =>
      /\ Range(stack[i].invoked) = Range(stack[i].initial)
      /\ Len(stack[i].invoked) = Len(stack[i].initial)

SameWritePending(s) ==
  /\ AtOp("wr")
  /\ CurOp.sig = s
  /\ value[s] = CurOp.val
  /\ CurOp.val # NaN

\* C2: a write of a value that is === to the signal's current value invokes no
\* subscriber (no notification pass starts, no function is called) and leaves
\* every signal's value and subscriber set, and the observer state, unchanged.
C2_SameValueWriteIsNoOp ==
  [][\A s \in Sigs :
       SameWritePending(s) =>
         /\ value' = value
         /\ subscribers' = subscribers
         /\ Len(stack') = Len(stack)
         /\ \A i \in 1..Len(stack') : stack'[i].kind = stack[i].kind
         /\ started' = started
         /\ currentEffect' = currentEffect
         /\ effectStack' = effectStack]_vars

C2_Witness ==
  /\ Running
  /\ IsCode(Top)
  /\ Top.skipped > 0
  /\ Top.pc > 1
  /\ Top.code[Top.pc - 1].op = "wr"
  /\ subscribers[Top.code[Top.pc - 1].sig] # <<>>

IsEffect(f) == f \in 1..Len(fns) /\ fns[f].kind = "effect"

\* C8: effect(fn) runs fn at once; the effect is a subscriber of every signal
\* its body has read; and when the notification pass of a changed write to
\* such a signal is over, the effect has been re-run by it.
C8_EffectSubscribesAndReruns ==
  /\ \A f \in 1..Len(fns) : IsEffect(f) => f \in started
  /\ \A f \in 1..Len(fns) :
       IsEffect(f) => \A s \in everRead[f] : f \in Range(subscribers[s])
  /\ \A i \in 1..Len(stack) :
       PassDone(i) => stack[i].readers \subseteq Range(stack[i].invoked)

C8_Witness ==
  \E i \in 1..Len(stack) :
    /\ PassDone(i)
    /\ stack[i].readers # {}
    /\ stack[i].readers \subseteq Range(stack[i].invoked)

\* C9: the current observer is always the innermost effect execution on the
\* call stack (so it is the outer effect again once a nested run has ended),
\* and an effect is subscribed to a signal only if the signal was read while
\* that effect was the innermost execution: an inner effect's reads subscribe
\* the inner effect, never the outer one.
C9_NestedObserverRestored ==
  /\ currentEffect = InnermostEffect(stack)
  /\ \A f \in 1..Len(fns) :
       IsEffect(f) =>
         \A s \in Sigs : f \in Range(subscribers[s]) => s \in attributed[f]

C9_Witness ==
  \E f \in 1..Len(fns) :
    /\ fns[f].body = 3
    /\ f + 1 <= Len(fns)
    /\ f + 1 \in Range(subscribers["s1"])
    /\ f \in Range(subscribers["s2"])
    /\ f + 1 \notin Range(subscribers["s2"])
    /\ stack = <<>>

\* C10: when an exception leaves an effect execution, currentEffect and
\* effectStack are what they were when that execution began; once it has left
\* every execution no observer is current, so later reads subscribe nothing.
C10_ThrowRestoresObserver ==
  /\ [](stack = <<>> => (currentEffect = Null /\ effectStack = <<>>))
  /\ [][(thrown /\ stack # <<>> /\ Top.kind = "effect") =>
          /\ currentEffect' = Top.entryCur
          /\ effectStack' = Top.entryStack]_vars

C10_Witness ==
  /\ thrown
  /\ stack # <<>>
  /\ Top.kind = "effect"
  /\ Top.pc > 1
  /\ Top.code[Top.pc - 1].op = "effect"
  /\ currentEffect = Top.fn
  /\ effectStack = <<Top.fn>>


ComputedFn == CHOOSE f \in 1..Len(fns) : fns[f].body = ComputedBody

\* computed() has returned and no setter or run of the cell's effect is
\* on the call stack
ComputedSettled ==
  /\ HasComputed
  /\ ~thrown
  /\ \A i \in 1..Len(stack) :
       stack[i].kind # "notify" /\ stack[i].fn # ComputedFn

C29_GlitchFree ==
  (/\ AtOp("rd")
   /\ Top.kind = "effect"
   /\ fns[Top.fn].body = SourceAndDerivedReader
   /\ CurOp.sig = Derived)
    => value[Derived] = FnValue(value)

(***************************************************************************)
(* Properties of generated guarded effects.                                *)
(***************************************************************************)
BothDepsTruthy == Truthy(value["s1"]) /\ Truthy(value["s2"])

InAssignGuarded ==
  /\ Running
  /\ Top.kind = "effect"
  /\ fns[Top.fn].body = AssignGuarded

\* the setter's pass over the subscribers of a dependency is complete
DepPassDone ==
  /\ Running
  /\ Top.kind = "notify"
  /\ Top.sig \in Range(Deps)
  /\ Top.pc > Len(subscribers[Top.sig])

InBatch == Running /\ Top.kind = "batch"

\* C25: inside batch(fn) a read subscribes nobody; a write that changes a
\* cell starts that cell's notification pass at once, one pass per write,
\* and the pass has called every subscriber before fn continues; when the
\* batch frame is left, by return or by exception, the current observer is
\* the one that was current when batch was called.
C25_BatchUntracked ==
  [][/\ (InBatch /\ AtOp("rd")) => subscribers' = subscribers
     /\ (InBatch /\ stack' # stack
            /\ IF AtOp("wr") THEN ~StrictEq(value[CurOp.sig], CurOp.val)
                             ELSE FALSE)
          => /\ stack' = Push(Frame("notify", Null, <<>>, CurOp.sig))
             /\ value'[CurOp.sig] = CurOp.val
     /\ (Running /\ Top.kind = "notify" /\ stack' = Front(stack)
            /\ Len(stack) > 1 /\ stack[Len(stack) - 1].kind = "batch")
          => Range(Top.initial) \subseteq Range(Top.invoked)
     /\ (stack # <<>> /\ Top.kind = "batch" /\ stack' = Front(stack))
          => currentEffect' = Top.entryCur]_vars

\* fn, called by batch inside an effect, has read $a and written $b; the
\* write has already run a subscriber, which threw; the effect is not
\* subscribed to $a
C25_Witness ==
  /\ thrown
  /\ stack # <<>>
  /\ Top.kind = "batch"
  /\ Top.entryCur # Null
  /\ Top.pc = 3
  /\ value["s2"] = 1
  /\ Top.entryCur \notin Range(subscribers["s1"])

\* C26: re-running an effect never removes a subscription: a step other than
\* the unsubscribe function leaves every signal's subscriber set at least as
\* large, an effect is subscribed to every signal it has read in any run,
\* and a completed notification pass of a signal has re-run every effect
\* that ever read it, also when the effect's latest run did not read it.
C26_SubscriptionsKept ==
  [][/\ ~AtOp("unsubscribe")
          => \A s \in DOMAIN subscribers :
               Range(subscribers[s]) \subseteq Range(subscribers'[s])
     /\ \A f \in 1..Len(fns') :
          fns'[f].kind = "effect"
            => \A s \in everRead'[f] : f \in Range(subscribers'[s])
     /\ (DepPassDone /\ stack' = Front(stack))
          => \A f \in 1..Len(fns) :
               (fns[f].kind = "effect" /\ Top.sig \in everRead[f])
                 => f \in Range(Top.invoked)]_vars

\* $a is falsy, so the latest run of the guarded effect stopped at $a; the
\* write of $b has re-run it all the same
C26_Witness ==
  /\ DepPassDone
  /\ Top.sig = "s2"
  /\ ~Truthy(value["s1"])
  /\ \E f \in 1..Len(fns) :
       /\ fns[f].body = AssignGuarded
       /\ f \in Range(Top.invoked)
       /\ "s2" \in everRead[f]

\* C28: every signal write returns: the notification cascade a write starts
\* never exhausts the call stack, also when a notified effect writes a
\* signal it reads, as the effect generated from  ~ $flag > $count++  does.
C28_WriteReturns ==
  thrown => ~\E i \in 1..Len(stack) : stack[i].kind = "notify"

(***************************************************************************)
(* Properties of generated fetch effects.                                  *)
(***************************************************************************)

\* C12: an effect whose action is a fetch pipeline issues its request exactly
\* once per component instantiation; no later write to any cell makes the
\* generated effect body run again.
C12_FetchIssuedOnce == issued <= 1

\* C13: when two continuations writing the same cell are in flight, the
\* cell's final value is the one written by whichever response resolves
\* last, also when that is the response to the earlier request; nothing
\* cancels or guards the earlier continuation.
C13_LastResolvedWins ==
  (stack = <<>> /\ resolved # <<>>) => value[Data] = Last(resolved)

\* the response to request 1 resolved after the response to request 2 and
\* its data is what the cell holds
C13_Witness ==
  /\ stack = <<>>
  /\ resolved = <<2, 1>>
  /\ value[Data] = 1

(***************************************************************************)
(* Properties of the DOM helpers.                                          *)
(***************************************************************************)
DomQuiet == mounted /\ stack = <<>> /\ ~thrown

\* C3: mounted, the heading that holds @{$count} shows "0"; once the increment
\* event has been dispatched and handled, it shows "1".
C3_HeadingShowsCount ==
  DomQuiet =>
    /\ clicks = 0 => heading.text = "0"
    /\ clicks = 1 => heading.text = "1"

CurrentItems == IF value[Items] # Undefined THEN arrayItems ELSE <<>>

\* C4: once list() has subscribed to the cell, after every changed write the
\* container's children are the nodes renderItem produced in the latest render,
\* one per item of the cell's current array and in array order, and no node
\* that was a child before the latest write is a child any more.
C4_ListRebuildsFromScratch ==
  (DomQuiet /\ fetches > 0) =>
    /\ KidIds(container.kids) = made
    /\ NoDup(made)
    /\ Len(container.kids) = Len(CurrentItems)
    /\ \A i \in 1..Len(container.kids) :
         container.kids[i].text = String(CurrentItems[i])
    /\ Range(KidIds(container.kids)) \cap prevKids = {}

C4_Witness ==
  /\ DomQuiet
  /\ fetches = 2
  /\ Cardinality(prevKids) = 2
  /\ Len(container.kids) = 3
  /\ container.kids[1].text # container.kids[2].text


\* C19: mount(component, target) wraps the render function in an effect, so
\* the render function re-runs whenever a signal it read while rendering
\* changes: once mounted, an effect exists that is subscribed to $count and
\* $items, the signals the render function read.
C19_MountWrapsRenderInEffect ==
  mounted =>
    \E f \in 1..Len(fns) :
      /\ fns[f].kind = "effect"
      /\ f \in Range(subscribers[Count])
      /\ f \in Range(subscribers[Items])

(***************************************************************************)
(* Properties of findContentBracket.                                       *)
(***************************************************************************)
Positions == 0..(Len(bline) - 1)
HyphenOpen(k) == CharAt(bline, k) = "[" /\ k > 0 /\ CharAt(bline, k - 1) = "-"
Opens(a, b) == Cardinality({k \in a..b : k \in Positions /\ HyphenOpen(k)})
Closes(a, b) ==
  Cardinality({k \in a..b : k \in Positions /\ CharAt(bline, k) = "]"})
\* The ']' that closes the hyphen-prefixed '[' at j: the first one after which
\* more brackets have closed than hyphen-prefixed brackets have opened.
ClosedBy(j, c) ==
  /\ c > j
  /\ CharAt(bline, c) = "]"
  /\ Closes(j + 1, c) = Opens(j + 1, c) + 1
  /\ \A d \in (j + 1)..(c - 1) : Closes(j + 1, d) <= Opens(j + 1, d)
InsidePair(k) ==
  \E j \in Positions :
    /\ j < k
    /\ HyphenOpen(j)
    /\ ~\E c \in Positions : c < k /\ ClosedBy(j, c)
ContentOpen(k) ==
  /\ CharAt(bline, k) = "["
  /\ ~HyphenOpen(k)
  /\ ~InsidePair(k)

\* C6: findContentBracket never returns a '[' that follows a '-'; it returns
\* the first '[' that is not hyphen-prefixed and lies outside every
\* hyphen-prefixed bracket pair, and -1 when the line has none.
C6_ContentBracket ==
  (bpc = "done" /\ bline # <<>>) =>
    /\ bret >= 0 => ~HyphenOpen(bret)
    /\ IF \E k \in Positions : ContentOpen(k)
         THEN /\ bret \in Positions
              /\ ContentOpen(bret)
              /\ \A k \in Positions : ContentOpen(k) => bret <= k
         ELSE bret = -1

C6_Witness ==
  /\ bpc = "done"
  /\ bret >= 0
  /\ \E k \in Positions :
       /\ k < bret
       /\ HyphenOpen(k)
       /\ \A j \in Positions : j < k => CharAt(bline, j) # "["


(***************************************************************************)
(* Properties of style sheet generation.                                   *)
(***************************************************************************)
SharedLocalClasses ==
  {c \in Range(elementClasses[1]) \cap Range(elementClasses[2]) :
     ~isArbitraryClass(c)}

HasRule(i, selector) == \E k \in DOMAIN parts[i] : parts[i][k] = selector

\* C7: once two components with different names are compiled, every class
\* (other than an arbitrary-value class) that both declare has a rule in each
\* style sheet, and the two rules' selectors differ.
C7_DistinctScopedRules ==
  phase = "done" /\ componentName[1] # componentName[2] =>
    \A c \in SharedLocalClasses :
      /\ HasRule(1, scopedClass(c, scopeId[1]))
      /\ HasRule(2, scopedClass(c, scopeId[2]))
      /\ scopedClass(c, scopeId[1]) # scopedClass(c, scopeId[2])

(***************************************************************************)
(* Properties of the parser.                                               *)
(***************************************************************************)
BothParsed == run = 2 /\ ppc = "done"

\* C5: a source parsed under two indentation units, each used consistently on
\* every line, gives the same AST both times.
C5_IndentUnitInvariant == BothParsed => ast = firstAst

\* C15: in every AST returned by parse(), the names of the state
\* declarations are pairwise distinct.
C15_StateNamesDistinct ==
  ppc = "done" => NoDup([i \in 1..Len(ast.state) |-> ast.state[i].name])

\* a trimmed line that is $ followed by a name and nothing else
BareName(t) == Len(t) >= 2 /\ t[1] = "$" /\ wordPrefix(Tail(t)) = Tail(t)

\* the first line after pos that is neither blank nor a comment exists and
\* is indented more than the line at pos
BlockFollows ==
  LET after == {j \in (pos + 1)..(Len(lines) - 1) :
                  ~isBlankOrComment(trim(lines[j + 1]))}
  IN  after # {} /\ getIndent(SetMin(after)) > getIndent(pos)

AtBareName ==
  /\ InChildren
  /\ IF HasLine THEN ~ChildrenOver /\ BareName(Trimmed) ELSE FALSE

\* C16: a child line that is a bare $name parses to a Loop node whose
\* template is the more-indented non-empty block following it, also when
\* blank or comment lines separate the two, and to a Variable node when no
\* such block follows.
C16_VariableOrLoop ==
  [][AtBareName =>
       IF BlockFollows
         THEN /\ Len(pframes') = Len(pframes) + 1
              /\ pframes'[Len(pframes')].kind = "loop"
         ELSE /\ Len(pframes') = Len(pframes)
              /\ Last(pframes'[Len(pframes')].children).type = "Variable"]_vars

\* the trimmed root-level markup lines after the separator, in source order
RootMarkupLines ==
  LET at == [i \in 1..Len(lines) |->
               [index |-> i - 1, text |-> trim(lines[i])]]
      sel == SelectSeq(at, LAMBDA l :
               /\ l.index > separatorIndex
               /\ getIndent(l.index) = 0
               /\ matchAliasUse(l.text) \/ matchElement(l.text))
  IN  [k \in 1..Len(sel) |-> sel[k].text]

\* C18: in two-phase mode every root-level markup line after the separator
\* contributes a node to ast.markup, in source order; none is dropped.
C18_MarkupComplete ==
  (ppc = "done" /\ lines # <<>> /\ separatorIndex # -1) =>
    [k \in 1..Len(ast.markup) |-> ast.markup[k].value] = RootMarkupLines

\* a step of parseChildren that consumes a non-blank line
ConsumesChildLine ==
  /\ InChildren
  /\ pos' > pos
  /\ Trimmed # <<>>

\* parseChildren returns to the parseMarkup that called it
ElementReturns ==
  /\ InChildren
  /\ PTop.kind = "markup"
  /\ Len(pframes') < Len(pframes)

C20_CatchAllRoute ==
  (rpc = "done" /\ routes # <<>> /\ Last(routes).path = <<"/", "*">>) =>
    LET earlier == {i \in 1..(Len(routes) - 1) :
                      matchPath(routes[i].path, pathname).ok}
    IN  matched = IF earlier = {} THEN Last(routes).component
                  ELSE routes[SetMin(earlier)].component

\* C27: parse() terminates: every step of the parser advances the line
\* position, returns from a parseChildren or parseRootElements call, or
\* ends the parse, also on child lines that start with ? or $ without
\* matching the conditional or loop pattern.
C27_IterationAdvances ==
  [][\/ pos' > pos
     \/ Len(pframes') < Len(pframes)
     \/ ppc' # ppc
     \/ run' # run]_vars

\* C14: in every AST returned by parse(), the imports list holds at most one
\* entry per referenced component name, however many @@Name references the
\* source contains and whether they occur at root level or nested.
C14_ImportsDistinct == ppc = "done" => NoDup(ast.imports)

(***************************************************************************)
(* Properties of the in-memory store.                                      *)
(***************************************************************************)
\* C30: after any sequence of inserts and deletes on a table, the records
\* of the table have pairwise distinct ids.
C30_DistinctIds ==
  \A i, j \in 1..Len(table) : i # j => table[i].id # table[j].id

(***************************************************************************)
(* Properties of the generated fetch pipeline.                             *)
(***************************************************************************)
\* the stages of the pipeline that write a cell, left to right
WritingStages ==
  SelectSeq([i \in 1..Len(pipeline) |-> i],
            LAMBDA i : pipeline[i].kind \in {"data", "assign"})

\* C23: the writes of a fetch pipeline happen in the pipeline's left-to-right
\* order: none before the response has arrived, and each stage's write only
\* after the write of every writing stage to its left.
C23_StagesInOrder ==
  /\ writes # <<>> => arrived
  /\ Len(writes) <= Len(WritingStages)
  /\ writes = SubSeq(WritingStages, 1, Len(writes))

\* a pipeline  fetch url > $users > other > $loading:false  has run to its
\* end
C23_Witness ==
  /\ cpc = "done"
  /\ writes = <<2, 4>>
  /\ pipeline[3].kind = "other"
  /\ cells["users"] = "data"
  /\ cells["loading"] = "false"

(***************************************************************************)
(* Properties of the generated markup code.                                *)
(***************************************************************************)
\* the nodes the children of an element stand for when $flag = f: an
\* element or a loop is one node, a Conditional its branch or nothing
RECURSIVE Contributed(_, _, _)
Contributed(children, id, f) ==
  IF children = <<>> THEN <<>>
  ELSE (IF Head(children).type = "Conditional"
          THEN IF Truthy(f)
                 THEN generateEach(Head(children).children, id, f)
                 ELSE <<>>
          ELSE <<generateElement(Head(children), id, f)>>)
       \o Contributed(Tail(children), id, f)

\* C22: at each render pass a Conditional contributes the nodes of its true
\* branch to the children of its parent exactly when its condition is
\* truthy at that pass, as the only child and as one of several.
C22_ConditionalContributes ==
  renderedWith # <<>>
    => rendered = Contributed(markup.children, generateScopeId(MarkupName),
                              renderedWith[1])

\* every element of a markup tree, whatever it sits in
RECURSIVE ElementsOf(_)
ElementsOf(n) ==
  (IF n.type = "Element" THEN {n} ELSE {})
    \cup UNION {ElementsOf(n.children[i]) : i \in 1..Len(n.children)}

UsedLocalClasses ==
  {c \in UNION {Range(e.classes) : e \in ElementsOf(markup)} :
     ~isUtilityClass(c)}

RuleCount(q, x) == Cardinality({i \in 1..Len(q) : q[i] = x})

\* C24: for every distinct local class used by an element anywhere in the
\* markup tree, generateCSS emits exactly one rule under the scoped name,
\* and the class string of each element that uses the class holds that
\* same scoped name.
C24_OneRulePerLocalClass ==
  generated =>
    \A c \in UsedLocalClasses :
      /\ RuleCount(css, scopedClass(c, generateScopeId(MarkupName))) = 1
      /\ \A i \in 1..Len(classStrings) :
           c \in Range(classStrings[i].classes)
             => scopedClass(c, generateScopeId(MarkupName))
                  \in Range(classStrings[i].class)

=========================================================================
